---- MODULE Spec2Model ----
(***************************************************************************)
(* MedFlowAI: the record store adapter, the daily / weekly summary         *)
(* builder, the LLM gateway and the response interpreters of the request   *)
(* handlers, as a state machine over the hosted store.                     *)
(*                                                                         *)
(* Python values are tagged records: PyNone, PyStr(chars), PyInt(n),       *)
(* PyList(items), PyDict(pairs).  A text is a sequence of one-character    *)
(* strings.  A dict holds its keys in insertion order and a function whose *)
(* DOMAIN is its key set, so a missing key and a key bound to None are     *)
(* different things, as in Python.                                         *)
(* A call that raises returns [ok |-> FALSE, err |-> e]; the e of a store  *)
(* adapter method is its message, a sequence that ends with its cause's.   *)
(***************************************************************************)
EXTENDS Integers, Sequences, FiniteSets, TLC

\* ---------------------------------------------------------------- bounds
\* rows written to the store: health records and appointments together
MaxRecords == 2
\* length of the enumerated LLM score responses
MaxLen == 3
\* entries of an enumerated recommendations list
MaxRecs == 2
\* choices of an enumerated completion, messages of an enumerated history
MaxChoices == 2
\* rows of the profiles table a batch goes through
MaxProfiles == 2
\* the day number date.today() returns
Today == 9

\* ------------------------------------------------------ program constants
\* fallback of the score extraction
DefaultScore == 50
\* upper clamp of the score
MaxScore == 100
\* timedelta(days=7) of the weekly summary
WeekDays == 7
\* data[:3] of the per-category brief prompt
BriefLimit == 3
\* rec.get('score', 50)
DefaultRecommendationScore == 50
\* bucket[:5] of the e-mail tables
EmailRowLimit == 5

\* ------------------------------------------------------- Python values
PyNone == [t |-> "none"]
PyStr(s) == [t |-> "str", s |-> s]
PyInt(n) == [t |-> "int", n |-> n]
PyBool(b) == [t |-> "bool", b |-> b]
\* a float, as the text of its literal
PyFloat(text) == [t |-> "float", text |-> text]
PyList(items) == [t |-> "list", items |-> items]
PyTuple(items) == [t |-> "tuple", items |-> items]
\* the keys of a sequence of (key, value) pairs, each at the place where it
\* comes first
RECURSIVE DictKeys(_, _)
DictKeys(items, seen) ==
  IF items = <<>> THEN <<>>
  ELSE IF items[1][1] \in seen THEN DictKeys(Tail(items), seen)
  ELSE <<items[1][1]>> \o DictKeys(Tail(items), seen \cup {items[1][1]})
\* a dict, built as a dict literal or successive d[key] = value build it from
\* (key, value) pairs: keys holds the keys in insertion order, d the value
\* of each key; a key given again keeps its place and takes the later
\* value.  A key is held under the name KeyName gives its text.
PyDict(items) ==
  [t |-> "dict",
   keys |-> DictKeys(items, {}),
   d |-> [k \in { items[i][1] : i \in DOMAIN items } |->
            items[CHOOSE i \in DOMAIN items :
                    /\ items[i][1] = k
                    /\ \A j \in DOMAIN items : items[j][1] = k => j <= i][2]]]
\* a datetime.date, as its day number
PyDate(d) == [t |-> "date", d |-> d]

IsStr(v) == v.t = "str"
\* the empty dict {} : a function with an empty domain
EmptyDict == [k \in {} |-> PyNone]
\* dict.get(key, default)
Get(d, key, default) == IF key \in DOMAIN d THEN d[key] ELSE default

\* ------------------------------------------------------------ characters
\* A character is a string. A character of U+0020..U+007E is written as
\* itself (the grave accent excepted), tab, line feed, form feed and carriage
\* return by their escapes, and every other character by its code point:
\* "U+00B2" stands for the one character U+00B2, "U+1F600" for U+1F600.
PrintableAscii ==
  <<" ", "!", "\"", "#", "$", "%", "&", "'", "(", ")", "*", "+", ",", "-", ".", "/",
    "0", "1", "2", "3", "4", "5", "6", "7", "8", "9", ":", ";", "<", "=", ">", "?",
    "@", "A", "B", "C", "D", "E", "F", "G", "H", "I", "J", "K", "L", "M", "N", "O",
    "P", "Q", "R", "S", "T", "U", "V", "W", "X", "Y", "Z", "[", "\\", "]", "^", "_",
    "U+0060", "a", "b", "c", "d", "e", "f", "g", "h", "i", "j", "k", "l", "m", "n", "o",
    "p", "q", "r", "s", "t", "u", "v", "w", "x", "y", "z", "{", "|", "}", "~">>
HexDigits == <<"0", "1", "2", "3", "4", "5", "6", "7", "8", "9",
               "A", "B", "C", "D", "E", "F">>
\* n in hexadecimal, without leading zeros
RECURSIVE HexText(_)
HexText(n) ==
  IF n < 16 THEN HexDigits[n + 1] ELSE HexText(n \div 16) \o HexDigits[(n % 16) + 1]
\* the character of code point n
CodePointChar(n) ==
  CASE n >= 32 /\ n <= 126 -> PrintableAscii[n - 31]
    [] n = 9 -> "\t"
    [] n = 10 -> "\n"
    [] n = 12 -> "\f"
    [] n = 13 -> "\r"
    [] OTHER -> "U+" \o (IF n < 16 THEN "000" ELSE IF n < 256 THEN "00"
                         ELSE IF n < 4096 THEN "0" ELSE "") \o HexText(n)
HexLower == <<"0", "1", "2", "3", "4", "5", "6", "7", "8", "9",
              "a", "b", "c", "d", "e", "f">>
IsHex(c) == \E i \in 1..16 : c \in {HexDigits[i], HexLower[i]}
HexVal(c) == (CHOOSE i \in 1..16 : c \in {HexDigits[i], HexLower[i]}) - 1
\* the code point of a character written by its code point
RECURSIVE HexValue(_, _)
HexValue(hex, n) ==
  IF hex = "" THEN n ELSE HexValue(Tail(hex), 16 * n + HexVal(Head(hex)))
CodePointOf(c) == HexValue(SubSeq(c, 3, Len(c)), 0)
\* the name under which a dict holds the key with these characters: the
\* characters in a row, a backslash doubled and a character written by its
\* code point put between a backslash and a semicolon, so that two texts
\* have the same name only when they are the same text
RECURSIVE KeyName(_)
KeyName(chars) ==
  IF chars = <<>> THEN ""
  ELSE (IF chars[1] = "\\" THEN "\\\\"
        ELSE IF Len(chars[1]) > 1 THEN "\\" \o chars[1] \o ";"
        ELSE chars[1]) \o KeyName(Tail(chars))
\* the characters of the key held under a name
RECURSIVE KeyTextFrom(_, _)
KeyTextFrom(name, i) ==
  IF i > Len(name) THEN <<>>
  ELSE IF SubSeq(name, i, i) # "\\"
  THEN <<SubSeq(name, i, i)>> \o KeyTextFrom(name, i + 1)
  ELSE IF SubSeq(name, i + 1, i + 1) = "\\"
  THEN <<"\\">> \o KeyTextFrom(name, i + 2)
  ELSE LET end == CHOOSE j \in (i + 1)..Len(name) :
                    /\ SubSeq(name, j, j) = ";"
                    /\ \A k \in (i + 1)..(j - 1) : SubSeq(name, k, k) # ";"
       IN  <<SubSeq(name, i + 1, end - 1)>> \o KeyTextFrom(name, end + 1)
KeyText(name) == KeyTextFrom(name, 1)
\* the characters of a set of code point ranges <<first, last>>
CharsOf(ranges) == UNION { { CodePointChar(n) : n \in r[1]..r[2] } : r \in ranges }

\* the digits of the JSON grammar
AsciiDigits == {"0", "1", "2", "3", "4", "5", "6", "7", "8", "9"}
\* the code points of the digit zero of every decimal number system of
\* Unicode 14 (category Nd); the digits 1 to 9 follow their zero
DigitZeros ==
  {48, 1632, 1776, 1984, 2406, 2534, 2662, 2790, 2918, 3046, 3174, 3302, 3430, 3558,
   3664, 3792, 3872, 4160, 4240, 6112, 6160, 6470, 6608, 6784, 6800, 6992, 7088, 7232,
   7248, 42528, 43216, 43264, 43472, 43504, 43600, 44016, 65296, 66720, 68912, 69734,
   69872, 69942, 70096, 70384, 70736, 70864, 71248, 71360, 71472, 71904, 72016, 72784,
   73040, 73120, 92768, 92864, 93008, 120782, 120792, 120802, 120812, 120822, 123200,
   123632, 125264, 130032}
\* the characters int() accepts as a digit, 660 of them
DecimalDigits == UNION { { CodePointChar(z + d) : d \in 0..9 } : z \in DigitZeros }
\* the characters for which str.isdigit is True and that int() rejects
\* (superscripts, subscripts, circled digits, ...), 128 of them
OtherDigitRanges ==
  {<<178, 179>>, <<185, 185>>, <<4969, 4977>>, <<6618, 6618>>, <<8304, 8304>>,
   <<8308, 8313>>, <<8320, 8329>>, <<9312, 9320>>, <<9332, 9340>>, <<9352, 9360>>,
   <<9450, 9450>>, <<9461, 9469>>, <<9471, 9471>>, <<10102, 10110>>, <<10112, 10120>>,
   <<10122, 10130>>, <<68160, 68163>>, <<69216, 69224>>, <<69714, 69722>>,
   <<127232, 127242>>}
SuperDigits == CharsOf(OtherDigitRanges)
\* the characters str.strip() removes, those with str.isspace() True
Whitespace ==
  {" ", "\t", "\n", "\r", "\f", "U+000B", "U+001C", "U+001D", "U+001E", "U+001F",
   "U+0085", "U+00A0", "U+1680", "U+2000", "U+2001", "U+2002", "U+2003", "U+2004",
   "U+2005", "U+2006", "U+2007", "U+2008", "U+2009", "U+200A", "U+2028", "U+2029",
   "U+202F", "U+205F", "U+3000"}
\* str.lower of one character: the characters it changes are given by runs
\* <<first, last, step, delta>>, each character first, first + step, ..,
\* last becoming the character delta code points further; U+0130 becomes
\* the two characters i and U+0307
LowerRuns ==
  {<<65, 90, 1, 32>>, <<192, 214, 1, 32>>, <<216, 222, 1, 32>>, <<256, 302, 2, 1>>,
   <<306, 310, 2, 1>>, <<313, 327, 2, 1>>, <<330, 374, 2, 1>>, <<376, 376, 1, -121>>,
   <<377, 381, 2, 1>>, <<385, 385, 1, 210>>, <<386, 388, 2, 1>>, <<390, 390, 1, 206>>,
   <<391, 391, 1, 1>>, <<393, 394, 1, 205>>, <<395, 395, 1, 1>>, <<398, 398, 1, 79>>,
   <<399, 399, 1, 202>>, <<400, 400, 1, 203>>, <<401, 401, 1, 1>>,
   <<403, 403, 1, 205>>, <<404, 404, 1, 207>>, <<406, 406, 1, 211>>,
   <<407, 407, 1, 209>>, <<408, 408, 1, 1>>, <<412, 412, 1, 211>>,
   <<413, 413, 1, 213>>, <<415, 415, 1, 214>>, <<416, 420, 2, 1>>,
   <<422, 422, 1, 218>>, <<423, 423, 1, 1>>, <<425, 425, 1, 218>>, <<428, 428, 1, 1>>,
   <<430, 430, 1, 218>>, <<431, 431, 1, 1>>, <<433, 434, 1, 217>>, <<435, 437, 2, 1>>,
   <<439, 439, 1, 219>>, <<440, 440, 1, 1>>, <<444, 444, 1, 1>>, <<452, 452, 1, 2>>,
   <<453, 453, 1, 1>>, <<455, 455, 1, 2>>, <<456, 456, 1, 1>>, <<458, 458, 1, 2>>,
   <<459, 475, 2, 1>>, <<478, 494, 2, 1>>, <<497, 497, 1, 2>>, <<498, 500, 2, 1>>,
   <<502, 502, 1, -97>>, <<503, 503, 1, -56>>, <<504, 542, 2, 1>>,
   <<544, 544, 1, -130>>, <<546, 562, 2, 1>>, <<570, 570, 1, 10795>>,
   <<571, 571, 1, 1>>, <<573, 573, 1, -163>>, <<574, 574, 1, 10792>>,
   <<577, 577, 1, 1>>, <<579, 579, 1, -195>>, <<580, 580, 1, 69>>,
   <<581, 581, 1, 71>>, <<582, 590, 2, 1>>, <<880, 882, 2, 1>>, <<886, 886, 1, 1>>,
   <<895, 895, 1, 116>>, <<902, 902, 1, 38>>, <<904, 906, 1, 37>>,
   <<908, 908, 1, 64>>, <<910, 911, 1, 63>>, <<913, 929, 1, 32>>, <<931, 939, 1, 32>>,
   <<975, 975, 1, 8>>, <<984, 1006, 2, 1>>, <<1012, 1012, 1, -60>>,
   <<1015, 1015, 1, 1>>, <<1017, 1017, 1, -7>>, <<1018, 1018, 1, 1>>,
   <<1021, 1023, 1, -130>>, <<1024, 1039, 1, 80>>, <<1040, 1071, 1, 32>>,
   <<1120, 1152, 2, 1>>, <<1162, 1214, 2, 1>>, <<1216, 1216, 1, 15>>,
   <<1217, 1229, 2, 1>>, <<1232, 1326, 2, 1>>, <<1329, 1366, 1, 48>>,
   <<4256, 4293, 1, 7264>>, <<4295, 4295, 1, 7264>>, <<4301, 4301, 1, 7264>>,
   <<5024, 5103, 1, 38864>>, <<5104, 5109, 1, 8>>, <<7312, 7354, 1, -3008>>,
   <<7357, 7359, 1, -3008>>, <<7680, 7828, 2, 1>>, <<7838, 7838, 1, -7615>>,
   <<7840, 7934, 2, 1>>, <<7944, 7951, 1, -8>>, <<7960, 7965, 1, -8>>,
   <<7976, 7983, 1, -8>>, <<7992, 7999, 1, -8>>, <<8008, 8013, 1, -8>>,
   <<8025, 8031, 2, -8>>, <<8040, 8047, 1, -8>>, <<8072, 8079, 1, -8>>,
   <<8088, 8095, 1, -8>>, <<8104, 8111, 1, -8>>, <<8120, 8121, 1, -8>>,
   <<8122, 8123, 1, -74>>, <<8124, 8124, 1, -9>>, <<8136, 8139, 1, -86>>,
   <<8140, 8140, 1, -9>>, <<8152, 8153, 1, -8>>, <<8154, 8155, 1, -100>>,
   <<8168, 8169, 1, -8>>, <<8170, 8171, 1, -112>>, <<8172, 8172, 1, -7>>,
   <<8184, 8185, 1, -128>>, <<8186, 8187, 1, -126>>, <<8188, 8188, 1, -9>>,
   <<8486, 8486, 1, -7517>>, <<8490, 8490, 1, -8383>>, <<8491, 8491, 1, -8262>>,
   <<8498, 8498, 1, 28>>, <<8544, 8559, 1, 16>>, <<8579, 8579, 1, 1>>,
   <<9398, 9423, 1, 26>>, <<11264, 11311, 1, 48>>, <<11360, 11360, 1, 1>>,
   <<11362, 11362, 1, -10743>>, <<11363, 11363, 1, -3814>>,
   <<11364, 11364, 1, -10727>>, <<11367, 11371, 2, 1>>, <<11373, 11373, 1, -10780>>,
   <<11374, 11374, 1, -10749>>, <<11375, 11375, 1, -10783>>,
   <<11376, 11376, 1, -10782>>, <<11378, 11378, 1, 1>>, <<11381, 11381, 1, 1>>,
   <<11390, 11391, 1, -10815>>, <<11392, 11490, 2, 1>>, <<11499, 11501, 2, 1>>,
   <<11506, 11506, 1, 1>>, <<42560, 42604, 2, 1>>, <<42624, 42650, 2, 1>>,
   <<42786, 42798, 2, 1>>, <<42802, 42862, 2, 1>>, <<42873, 42875, 2, 1>>,
   <<42877, 42877, 1, -35332>>, <<42878, 42886, 2, 1>>, <<42891, 42891, 1, 1>>,
   <<42893, 42893, 1, -42280>>, <<42896, 42898, 2, 1>>, <<42902, 42920, 2, 1>>,
   <<42922, 42922, 1, -42308>>, <<42923, 42923, 1, -42319>>,
   <<42924, 42924, 1, -42315>>, <<42925, 42925, 1, -42305>>,
   <<42926, 42926, 1, -42308>>, <<42928, 42928, 1, -42258>>,
   <<42929, 42929, 1, -42282>>, <<42930, 42930, 1, -42261>>, <<42931, 42931, 1, 928>>,
   <<42932, 42946, 2, 1>>, <<42948, 42948, 1, -48>>, <<42949, 42949, 1, -42307>>,
   <<42950, 42950, 1, -35384>>, <<42951, 42953, 2, 1>>, <<42960, 42960, 1, 1>>,
   <<42966, 42968, 2, 1>>, <<42997, 42997, 1, 1>>, <<65313, 65338, 1, 32>>,
   <<66560, 66599, 1, 40>>, <<66736, 66771, 1, 40>>, <<66928, 66938, 1, 39>>,
   <<66940, 66954, 1, 39>>, <<66956, 66962, 1, 39>>, <<66964, 66965, 1, 39>>,
   <<68736, 68786, 1, 64>>, <<71840, 71871, 1, 32>>, <<93760, 93791, 1, 32>>,
   <<125184, 125217, 1, 34>>}
LowerPairs ==
  UNION { { <<CodePointChar(n), <<CodePointChar(n + r[4])>>>> :
              n \in { m \in r[1]..r[2] : (m - r[1]) % r[3] = 0 } } : r \in LowerRuns }
  \cup { <<CodePointChar(304), <<"i", CodePointChar(775)>>>> }
\* the characters c with c.lower() # c, 1433 of them
UpperLetters == { p[1] : p \in LowerPairs }
\* c.lower() for each of them, a text
LowerLetters == [c \in UpperLetters |-> (CHOOSE p \in LowerPairs : p[1] = c)[2]]

\* the characters that are case-ignorable, and those that are cased and not
\* case-ignorable: str.lower looks at them around a capital sigma
CaseIgnorableRanges ==
  {<<39, 39>>, <<46, 46>>, <<58, 58>>, <<94, 94>>, <<96, 96>>, <<168, 168>>,
   <<173, 173>>, <<175, 175>>, <<180, 180>>, <<183, 184>>, <<688, 879>>, <<884, 885>>,
   <<890, 890>>, <<900, 901>>, <<903, 903>>, <<1155, 1161>>, <<1369, 1369>>,
   <<1375, 1375>>, <<1425, 1469>>, <<1471, 1471>>, <<1473, 1474>>, <<1476, 1477>>,
   <<1479, 1479>>, <<1524, 1524>>, <<1536, 1541>>, <<1552, 1562>>, <<1564, 1564>>,
   <<1600, 1600>>, <<1611, 1631>>, <<1648, 1648>>, <<1750, 1757>>, <<1759, 1768>>,
   <<1770, 1773>>, <<1807, 1807>>, <<1809, 1809>>, <<1840, 1866>>, <<1958, 1968>>,
   <<2027, 2037>>, <<2042, 2042>>, <<2045, 2045>>, <<2070, 2093>>, <<2137, 2139>>,
   <<2184, 2184>>, <<2192, 2193>>, <<2200, 2207>>, <<2249, 2306>>, <<2362, 2362>>,
   <<2364, 2364>>, <<2369, 2376>>, <<2381, 2381>>, <<2385, 2391>>, <<2402, 2403>>,
   <<2417, 2417>>, <<2433, 2433>>, <<2492, 2492>>, <<2497, 2500>>, <<2509, 2509>>,
   <<2530, 2531>>, <<2558, 2558>>, <<2561, 2562>>, <<2620, 2620>>, <<2625, 2626>>,
   <<2631, 2632>>, <<2635, 2637>>, <<2641, 2641>>, <<2672, 2673>>, <<2677, 2677>>,
   <<2689, 2690>>, <<2748, 2748>>, <<2753, 2757>>, <<2759, 2760>>, <<2765, 2765>>,
   <<2786, 2787>>, <<2810, 2815>>, <<2817, 2817>>, <<2876, 2876>>, <<2879, 2879>>,
   <<2881, 2884>>, <<2893, 2893>>, <<2901, 2902>>, <<2914, 2915>>, <<2946, 2946>>,
   <<3008, 3008>>, <<3021, 3021>>, <<3072, 3072>>, <<3076, 3076>>, <<3132, 3132>>,
   <<3134, 3136>>, <<3142, 3144>>, <<3146, 3149>>, <<3157, 3158>>, <<3170, 3171>>,
   <<3201, 3201>>, <<3260, 3260>>, <<3263, 3263>>, <<3270, 3270>>, <<3276, 3277>>,
   <<3298, 3299>>, <<3328, 3329>>, <<3387, 3388>>, <<3393, 3396>>, <<3405, 3405>>,
   <<3426, 3427>>, <<3457, 3457>>, <<3530, 3530>>, <<3538, 3540>>, <<3542, 3542>>,
   <<3633, 3633>>, <<3636, 3642>>, <<3654, 3662>>, <<3761, 3761>>, <<3764, 3772>>,
   <<3782, 3782>>, <<3784, 3789>>, <<3864, 3865>>, <<3893, 3893>>, <<3895, 3895>>,
   <<3897, 3897>>, <<3953, 3966>>, <<3968, 3972>>, <<3974, 3975>>, <<3981, 3991>>,
   <<3993, 4028>>, <<4038, 4038>>, <<4141, 4144>>, <<4146, 4151>>, <<4153, 4154>>,
   <<4157, 4158>>, <<4184, 4185>>, <<4190, 4192>>, <<4209, 4212>>, <<4226, 4226>>,
   <<4229, 4230>>, <<4237, 4237>>, <<4253, 4253>>, <<4348, 4348>>, <<4957, 4959>>,
   <<5906, 5908>>, <<5938, 5939>>, <<5970, 5971>>, <<6002, 6003>>, <<6068, 6069>>,
   <<6071, 6077>>, <<6086, 6086>>, <<6089, 6099>>, <<6103, 6103>>, <<6109, 6109>>,
   <<6155, 6159>>, <<6211, 6211>>, <<6277, 6278>>, <<6313, 6313>>, <<6432, 6434>>,
   <<6439, 6440>>, <<6450, 6450>>, <<6457, 6459>>, <<6679, 6680>>, <<6683, 6683>>,
   <<6742, 6742>>, <<6744, 6750>>, <<6752, 6752>>, <<6754, 6754>>, <<6757, 6764>>,
   <<6771, 6780>>, <<6783, 6783>>, <<6823, 6823>>, <<6832, 6862>>, <<6912, 6915>>,
   <<6964, 6964>>, <<6966, 6970>>, <<6972, 6972>>, <<6978, 6978>>, <<7019, 7027>>,
   <<7040, 7041>>, <<7074, 7077>>, <<7080, 7081>>, <<7083, 7085>>, <<7142, 7142>>,
   <<7144, 7145>>, <<7149, 7149>>, <<7151, 7153>>, <<7212, 7219>>, <<7222, 7223>>,
   <<7288, 7293>>, <<7376, 7378>>, <<7380, 7392>>, <<7394, 7400>>, <<7405, 7405>>,
   <<7412, 7412>>, <<7416, 7417>>, <<7468, 7530>>, <<7544, 7544>>, <<7579, 7679>>,
   <<8125, 8125>>, <<8127, 8129>>, <<8141, 8143>>, <<8157, 8159>>, <<8173, 8175>>,
   <<8189, 8190>>, <<8203, 8207>>, <<8216, 8217>>, <<8228, 8228>>, <<8231, 8231>>,
   <<8234, 8238>>, <<8288, 8292>>, <<8294, 8303>>, <<8305, 8305>>, <<8319, 8319>>,
   <<8336, 8348>>, <<8400, 8432>>, <<11388, 11389>>, <<11503, 11505>>,
   <<11631, 11631>>, <<11647, 11647>>, <<11744, 11775>>, <<11823, 11823>>,
   <<12293, 12293>>, <<12330, 12333>>, <<12337, 12341>>, <<12347, 12347>>,
   <<12441, 12446>>, <<12540, 12542>>, <<40981, 40981>>, <<42232, 42237>>,
   <<42508, 42508>>, <<42607, 42610>>, <<42612, 42621>>, <<42623, 42623>>,
   <<42652, 42655>>, <<42736, 42737>>, <<42752, 42785>>, <<42864, 42864>>,
   <<42888, 42890>>, <<42994, 42996>>, <<43000, 43001>>, <<43010, 43010>>,
   <<43014, 43014>>, <<43019, 43019>>, <<43045, 43046>>, <<43052, 43052>>,
   <<43204, 43205>>, <<43232, 43249>>, <<43263, 43263>>, <<43302, 43309>>,
   <<43335, 43345>>, <<43392, 43394>>, <<43443, 43443>>, <<43446, 43449>>,
   <<43452, 43453>>, <<43471, 43471>>, <<43493, 43494>>, <<43561, 43566>>,
   <<43569, 43570>>, <<43573, 43574>>, <<43587, 43587>>, <<43596, 43596>>,
   <<43632, 43632>>, <<43644, 43644>>, <<43696, 43696>>, <<43698, 43700>>,
   <<43703, 43704>>, <<43710, 43711>>, <<43713, 43713>>, <<43741, 43741>>,
   <<43756, 43757>>, <<43763, 43764>>, <<43766, 43766>>, <<43867, 43871>>,
   <<43881, 43883>>, <<44005, 44005>>, <<44008, 44008>>, <<44013, 44013>>,
   <<64286, 64286>>, <<64434, 64450>>, <<65024, 65039>>, <<65043, 65043>>,
   <<65056, 65071>>, <<65106, 65106>>, <<65109, 65109>>, <<65279, 65279>>,
   <<65287, 65287>>, <<65294, 65294>>, <<65306, 65306>>, <<65342, 65342>>,
   <<65344, 65344>>, <<65392, 65392>>, <<65438, 65439>>, <<65507, 65507>>,
   <<65529, 65531>>, <<66045, 66045>>, <<66272, 66272>>, <<66422, 66426>>,
   <<67456, 67461>>, <<67463, 67504>>, <<67506, 67514>>, <<68097, 68099>>,
   <<68101, 68102>>, <<68108, 68111>>, <<68152, 68154>>, <<68159, 68159>>,
   <<68325, 68326>>, <<68900, 68903>>, <<69291, 69292>>, <<69446, 69456>>,
   <<69506, 69509>>, <<69633, 69633>>, <<69688, 69702>>, <<69744, 69744>>,
   <<69747, 69748>>, <<69759, 69761>>, <<69811, 69814>>, <<69817, 69818>>,
   <<69821, 69821>>, <<69826, 69826>>, <<69837, 69837>>, <<69888, 69890>>,
   <<69927, 69931>>, <<69933, 69940>>, <<70003, 70003>>, <<70016, 70017>>,
   <<70070, 70078>>, <<70089, 70092>>, <<70095, 70095>>, <<70191, 70193>>,
   <<70196, 70196>>, <<70198, 70199>>, <<70206, 70206>>, <<70367, 70367>>,
   <<70371, 70378>>, <<70400, 70401>>, <<70459, 70460>>, <<70464, 70464>>,
   <<70502, 70508>>, <<70512, 70516>>, <<70712, 70719>>, <<70722, 70724>>,
   <<70726, 70726>>, <<70750, 70750>>, <<70835, 70840>>, <<70842, 70842>>,
   <<70847, 70848>>, <<70850, 70851>>, <<71090, 71093>>, <<71100, 71101>>,
   <<71103, 71104>>, <<71132, 71133>>, <<71219, 71226>>, <<71229, 71229>>,
   <<71231, 71232>>, <<71339, 71339>>, <<71341, 71341>>, <<71344, 71349>>,
   <<71351, 71351>>, <<71453, 71455>>, <<71458, 71461>>, <<71463, 71467>>,
   <<71727, 71735>>, <<71737, 71738>>, <<71995, 71996>>, <<71998, 71998>>,
   <<72003, 72003>>, <<72148, 72151>>, <<72154, 72155>>, <<72160, 72160>>,
   <<72193, 72202>>, <<72243, 72248>>, <<72251, 72254>>, <<72263, 72263>>,
   <<72273, 72278>>, <<72281, 72283>>, <<72330, 72342>>, <<72344, 72345>>,
   <<72752, 72758>>, <<72760, 72765>>, <<72767, 72767>>, <<72850, 72871>>,
   <<72874, 72880>>, <<72882, 72883>>, <<72885, 72886>>, <<73009, 73014>>,
   <<73018, 73018>>, <<73020, 73021>>, <<73023, 73029>>, <<73031, 73031>>,
   <<73104, 73105>>, <<73109, 73109>>, <<73111, 73111>>, <<73459, 73460>>,
   <<78896, 78904>>, <<92912, 92916>>, <<92976, 92982>>, <<92992, 92995>>,
   <<94031, 94031>>, <<94095, 94111>>, <<94176, 94177>>, <<94179, 94180>>,
   <<110576, 110579>>, <<110581, 110587>>, <<110589, 110590>>, <<113821, 113822>>,
   <<113824, 113827>>, <<118528, 118573>>, <<118576, 118598>>, <<119143, 119145>>,
   <<119155, 119170>>, <<119173, 119179>>, <<119210, 119213>>, <<119362, 119364>>,
   <<121344, 121398>>, <<121403, 121452>>, <<121461, 121461>>, <<121476, 121476>>,
   <<121499, 121503>>, <<121505, 121519>>, <<122880, 122886>>, <<122888, 122904>>,
   <<122907, 122913>>, <<122915, 122916>>, <<122918, 122922>>, <<123184, 123197>>,
   <<123566, 123566>>, <<123628, 123631>>, <<125136, 125142>>, <<125252, 125259>>,
   <<127995, 127999>>, <<917505, 917505>>, <<917536, 917631>>, <<917760, 917999>>}
CaseIgnorable == CharsOf(CaseIgnorableRanges)
CasedRanges ==
  {<<65, 90>>, <<97, 122>>, <<170, 170>>, <<181, 181>>, <<186, 186>>, <<192, 214>>,
   <<216, 246>>, <<248, 442>>, <<444, 447>>, <<452, 659>>, <<661, 687>>, <<880, 883>>,
   <<886, 887>>, <<891, 893>>, <<895, 895>>, <<902, 902>>, <<904, 906>>, <<908, 908>>,
   <<910, 929>>, <<931, 1013>>, <<1015, 1153>>, <<1162, 1327>>, <<1329, 1366>>,
   <<1376, 1416>>, <<4256, 4293>>, <<4295, 4295>>, <<4301, 4301>>, <<4304, 4346>>,
   <<4349, 4351>>, <<5024, 5109>>, <<5112, 5117>>, <<7296, 7304>>, <<7312, 7354>>,
   <<7357, 7359>>, <<7424, 7467>>, <<7531, 7543>>, <<7545, 7578>>, <<7680, 7957>>,
   <<7960, 7965>>, <<7968, 8005>>, <<8008, 8013>>, <<8016, 8023>>, <<8025, 8025>>,
   <<8027, 8027>>, <<8029, 8029>>, <<8031, 8061>>, <<8064, 8116>>, <<8118, 8124>>,
   <<8126, 8126>>, <<8130, 8132>>, <<8134, 8140>>, <<8144, 8147>>, <<8150, 8155>>,
   <<8160, 8172>>, <<8178, 8180>>, <<8182, 8188>>, <<8450, 8450>>, <<8455, 8455>>,
   <<8458, 8467>>, <<8469, 8469>>, <<8473, 8477>>, <<8484, 8484>>, <<8486, 8486>>,
   <<8488, 8488>>, <<8490, 8493>>, <<8495, 8500>>, <<8505, 8505>>, <<8508, 8511>>,
   <<8517, 8521>>, <<8526, 8526>>, <<8544, 8575>>, <<8579, 8580>>, <<9398, 9449>>,
   <<11264, 11387>>, <<11390, 11492>>, <<11499, 11502>>, <<11506, 11507>>,
   <<11520, 11557>>, <<11559, 11559>>, <<11565, 11565>>, <<42560, 42605>>,
   <<42624, 42651>>, <<42786, 42863>>, <<42865, 42887>>, <<42891, 42894>>,
   <<42896, 42954>>, <<42960, 42961>>, <<42963, 42963>>, <<42965, 42969>>,
   <<42997, 42998>>, <<43002, 43002>>, <<43824, 43866>>, <<43872, 43880>>,
   <<43888, 43967>>, <<64256, 64262>>, <<64275, 64279>>, <<65313, 65338>>,
   <<65345, 65370>>, <<66560, 66639>>, <<66736, 66771>>, <<66776, 66811>>,
   <<66928, 66938>>, <<66940, 66954>>, <<66956, 66962>>, <<66964, 66965>>,
   <<66967, 66977>>, <<66979, 66993>>, <<66995, 67001>>, <<67003, 67004>>,
   <<68736, 68786>>, <<68800, 68850>>, <<71840, 71903>>, <<93760, 93823>>,
   <<119808, 119892>>, <<119894, 119964>>, <<119966, 119967>>, <<119970, 119970>>,
   <<119973, 119974>>, <<119977, 119980>>, <<119982, 119993>>, <<119995, 119995>>,
   <<119997, 120003>>, <<120005, 120069>>, <<120071, 120074>>, <<120077, 120084>>,
   <<120086, 120092>>, <<120094, 120121>>, <<120123, 120126>>, <<120128, 120132>>,
   <<120134, 120134>>, <<120138, 120144>>, <<120146, 120485>>, <<120488, 120512>>,
   <<120514, 120538>>, <<120540, 120570>>, <<120572, 120596>>, <<120598, 120628>>,
   <<120630, 120654>>, <<120656, 120686>>, <<120688, 120712>>, <<120714, 120744>>,
   <<120746, 120770>>, <<120772, 120779>>, <<122624, 122633>>, <<122635, 122654>>,
   <<125184, 125251>>, <<127280, 127305>>, <<127312, 127337>>, <<127344, 127369>>}
Cased == CharsOf(CasedRanges)

\* str.isdigit of one character
IsDigit(c) == c \in DecimalDigits \cup SuperDigits

\* the value of each decimal digit: its distance from the zero of its
\* number system
DigitValues ==
  [c \in DecimalDigits |-> CHOOSE d \in 0..9 : \E z \in DigitZeros : CodePointChar(z + d) = c]
DigitVal(c) == DigitValues[c]

\* int(s) of a text: raises ValueError on the empty text and on characters
\* that are not decimal digits
RECURSIVE IntValue(_)
IntValue(s) ==
  IF s = <<>> THEN 0
  ELSE 10 * IntValue(SubSeq(s, 1, Len(s) - 1)) + DigitVal(s[Len(s)])

\* variant of IntOf: the empty text parses as 0
IntOfEmptyIsZero(s) ==
  IF \E i \in 1..Len(s) : s[i] \notin DecimalDigits
  THEN [ok |-> FALSE, err |-> "ValueError"]
  ELSE [ok |-> TRUE, val |-> IntValue(s)]

IntOf(s) ==
  IF s = <<>> \/ \E i \in 1..Len(s) : s[i] \notin DecimalDigits
  THEN [ok |-> FALSE, err |-> "ValueError"]
  ELSE [ok |-> TRUE, val |-> IntValue(s)]

\* max(a, b), min(a, b)
Max(a, b) == IF a >= b THEN a ELSE b
Min(a, b) == IF a <= b THEN a ELSE b

\* c.lower() of one character, a text
LowerChar(c) == IF c \in UpperLetters THEN LowerLetters[c] ELSE <<c>>
\* the capital sigma s[i] is final: a cased character comes before it and
\* none after it, case-ignorable characters skipped on both sides
FinalSigma(s, i) ==
  /\ \E j \in 1..(i - 1) :
        s[j] \in Cased /\ \A k \in (j + 1)..(i - 1) : s[k] \in CaseIgnorable
  /\ ~\E j \in (i + 1)..Len(s) :
        s[j] \in Cased /\ \A k \in (i + 1)..(j - 1) : s[k] \in CaseIgnorable
\* str.lower: each character lowered, a final capital sigma (U+03A3)
\* becoming U+03C2 instead of U+03C3
RECURSIVE LowerFrom(_, _)
LowerFrom(s, i) ==
  IF i > Len(s) THEN <<>>
  ELSE (IF s[i] = CodePointChar(931) /\ FinalSigma(s, i) THEN <<CodePointChar(962)>>
        ELSE LowerChar(s[i])) \o LowerFrom(s, i + 1)
Lower(s) == LowerFrom(s, 1)

\* str.strip
RECURSIVE LStrip(_)
LStrip(s) == IF s # <<>> /\ s[1] \in Whitespace THEN LStrip(Tail(s)) ELSE s
RECURSIVE RStrip(_)
RStrip(s) ==
  IF s # <<>> /\ s[Len(s)] \in Whitespace THEN RStrip(SubSeq(s, 1, Len(s) - 1)) ELSE s
Strip(s) == RStrip(LStrip(s))

\* needle in hay
Contains(hay, needle) ==
  \E i \in 0..(Len(hay) - Len(needle)) : SubSeq(hay, i + 1, i + Len(needle)) = needle

\* ------------------------------------------------------ score extraction
\* int(''.join(filter(str.isdigit, health_score))) clamped, 50 on any failure
\* variant of ScoreBlock: the upper clamp is missing
ScoreBlockUnclamped(health_score) ==
  LET digits == SelectSeq(health_score, IsDigit)
      parsed == IntOf(digits)
  IN  IF parsed.ok THEN Max(0, parsed.val) ELSE DefaultScore

ScoreBlock(health_score) ==
  LET digits == SelectSeq(health_score, IsDigit)
      parsed == IntOf(digits)
  IN  IF parsed.ok THEN Max(0, Min(MaxScore, parsed.val)) ELSE DefaultScore

\* the handler runs the same extraction block twice on the same response
ExtractScore(health_score) ==
  LET first == ScoreBlock(health_score)
      second == ScoreBlock(health_score)
  IN  second

\* ------------------------------------------------------------ the store
VARIABLES
  general,     \* table "general": the health records, in insertion order
  profiles,    \* table "profiles"
  cabinete,    \* table "cabinete": the clinics
  programari,  \* table "programari": the appointments
  resp         \* what the last operation returned to its caller, or Idle

vars == <<general, profiles, cabinete, programari, resp>>

Idle == [op |-> "idle"]

\* the five summary buckets: the summary keys whose value is a list
BucketKeys == {"consum", "somn", "vitale", "sport", "medicamente"}
\* a NULL type column, read as None by record.get("type")
NullType == "<null>"
\* no type_filter argument
NoFilter == "<none>"
\* `if type_filter:` : a filter is applied when one is given and it is not
\* the empty string
Filtering(type_filter) == type_filter # NoFilter /\ type_filter # ""
\* a request without user_id (absent or empty): `not user_id`
NoUser == ""

\* an assignment `x = value` followed by the statements that use x: value is
\* computed once and Rest is what the following statements make of it
With(value, Rest(_)) == CHOOSE out \in { Rest(x) : x \in {value} } : TRUE

Ok(v, tr) == [ok |-> TRUE, val |-> v, tr |-> tr]
Raise(e, tr) == [ok |-> FALSE, err |-> e, tr |-> tr]
\* The store calls that fail during one operation are a function dbfail from
\* the names of the failing calls to str(e) of the exception the store client
\* raises in each
NoFail == [op \in {} |-> <<>>]
StoreError(dbfail, op) == dbfail[op]
\* the failures in which the calls of one of the sets fail, each with one of
\* the causes
Fails(sets, causes) == UNION { [ops -> causes] : ops \in sets }
\* messages of the store client
DbDown == <<"db down">>
TimedOut == <<"The read operation timed out">>
StoreCauses == {DbDown, TimedOut}
\* f"{prefix}{str(e)}": a message that ends with the message of its cause
Msg(prefix, cause) == <<prefix>> \o cause
\* type(v).__name__
TypeName(v) == IF v.t = "none" THEN "NoneType" ELSE v.t
\* str(e) of the AttributeError of `x.attr` on a value without that attribute
NoAttribute(type, attr) == <<"'", type, "' object has no attribute '", attr, "'">>
\* str(e) of the TypeError of a `for` loop over a value that is not iterable
NotIterable(type) == <<"'", type, "' object is not iterable">>
Db(op) == [k |-> "db", op |-> op]

\* ------------------------------------------------------------ str, repr
\* str(n) of an integer
RECURSIVE NatToStr(_)
NatToStr(n) ==
  IF n < 10 THEN <<HexDigits[n + 1]>> ELSE NatToStr(n \div 10) \o <<HexDigits[(n % 10) + 1]>>
IntToStr(n) == IF n < 0 THEN <<"-">> \o NatToStr(0 - n) ELSE NatToStr(n)

Zeros(n) == [i \in 1..n |-> "0"]
\* digits without the zeros they start with, and without those they end with
DropZeros(ds) ==
  IF \A i \in 1..Len(ds) : ds[i] = "0" THEN <<>>
  ELSE SubSeq(ds, CHOOSE i \in 1..Len(ds) : ds[i] # "0" /\ \A j \in 1..(i - 1) : ds[j] = "0",
              Len(ds))
DropEndZeros(ds) ==
  IF \A i \in 1..Len(ds) : ds[i] = "0" THEN <<>>
  ELSE SubSeq(ds, 1, CHOOSE i \in 1..Len(ds) :
                       ds[i] # "0" /\ \A j \in (i + 1)..Len(ds) : ds[j] = "0")
\* the place of the first character of s that is in a set, Len(s) + 1 when
\* there is none
Find(s, set) ==
  IF \E i \in 1..Len(s) : s[i] \in set
  THEN CHOOSE i \in 1..Len(s) : s[i] \in set /\ \A j \in 1..(i - 1) : s[j] \notin set
  ELSE Len(s) + 1
\* the digits a are, place by place, at least the digits b (the shorter
\* continued with zeros)
RECURSIVE DigitsAtLeast(_, _)
DigitsAtLeast(a, b) ==
  IF b = <<>> THEN TRUE
  ELSE IF a = <<>> THEN DropZeros(b) = <<>>
  ELSE IF a[1] # b[1] THEN HexVal(a[1]) > HexVal(b[1])
  ELSE DigitsAtLeast(Tail(a), Tail(b))

\* A float is an IEEE 754 double: float(literal) is the double nearest to the
\* number the literal writes, and repr is the shortest decimal text that
\* reads back as that double.  Both are computed exactly, on natural numbers
\* of any size: such a number is the sequence of its digits in base 1000,
\* the lowest first and the highest not zero.
Limb == 10 ^ 3
BigTrim(a) ==
  IF \A i \in 1..Len(a) : a[i] = 0 THEN <<>>
  ELSE SubSeq(a, 1, CHOOSE i \in 1..Len(a) :
                      a[i] # 0 /\ \A j \in (i + 1)..Len(a) : a[j] = 0)
\* a < b: a has fewer digits, or as many and the lower one at the highest
\* place where the two differ
BigLess(a, b) ==
  IF Len(a) # Len(b) THEN Len(a) < Len(b)
  ELSE \E i \in 1..Len(a) : a[i] < b[i] /\ \A j \in (i + 1)..Len(a) : a[j] = b[j]
\* the digits of the terms lo to hi of t, each term a machine integer that
\* may be outside 0..999, with the carry that comes in, and the carry that
\* goes out; a carry is negative when a term is.  The upper half of the
\* terms takes the carry l.c of the lower half
RECURSIVE BigCarry(_, _, _, _)
RECURSIVE BigCarryUpper(_, _, _, _)
BigCarry(t, lo, hi, carry) ==
  IF lo = hi
  THEN [d |-> <<(t[lo] + carry) % Limb>>, c |-> (t[lo] + carry) \div Limb]
  ELSE BigCarryUpper(t, ((lo + hi) \div 2) + 1, hi, BigCarry(t, lo, (lo + hi) \div 2, carry))
BigCarryJoined(l, r) == [d |-> l.d \o r.d, c |-> r.c]
BigCarryUpper(t, lo, hi, l) == BigCarryJoined(l, BigCarry(t, lo, hi, l.c))
\* the number whose digit of place i is the term t[i], carries done
BigCarried(r) ==
  BigTrim(r.d \o <<r.c % Limb, (r.c \div Limb) % Limb, r.c \div (Limb * Limb)>>)
BigNormal(t) == IF t = <<>> THEN <<>> ELSE BigCarried(BigCarry(t, 1, Len(t), 0))
BigDigit(a, i) == IF i <= Len(a) THEN a[i] ELSE 0
\* a * c for a machine integer c up to 1000, a + c for a machine integer c
\* that may be negative, and a - b for b up to a
BigTimes(a, c) == BigNormal([i \in 1..Len(a) |-> a[i] * c])
BigPlusInt(a, c) ==
  BigNormal([i \in 1..Max(1, Len(a)) |-> BigDigit(a, i) + (IF i = 1 THEN c ELSE 0)])
BigMinus(a, b) == BigNormal([i \in 1..Len(a) |-> a[i] - BigDigit(b, i)])
\* a * 1000^n
BigLimbs(a, n) == IF a = <<>> THEN <<>> ELSE [i \in 1..n |-> 0] \o a
\* the sum of a[i] * b[k + 1 - i] for i from lo to hi
RECURSIVE BigTerm(_, _, _, _, _)
BigTerm(a, b, k, lo, hi) ==
  IF lo = hi THEN a[lo] * b[k + 1 - lo]
  ELSE BigTerm(a, b, k, lo, (lo + hi) \div 2) + BigTerm(a, b, k, ((lo + hi) \div 2) + 1, hi)
\* a * b
BigProduct(a, b) ==
  IF a = <<>> \/ b = <<>> THEN <<>>
  ELSE BigNormal([k \in 1..(Len(a) + Len(b) - 1) |->
                    BigTerm(a, b, k, Max(1, k + 1 - Len(b)), Min(k, Len(a)))])
BigSquare(a) == BigProduct(a, a)
\* base^n for a base up to 5, by squaring
RECURSIVE BigPower(_, _)
BigPower(base, n) ==
  IF n <= 4 THEN <<base ^ n>>
  ELSE BigTimes(BigSquare(BigPower(base, n \div 2)), base ^ (n % 2))
\* a * 2^n and a * 10^n
BigShift(a, n) == BigProduct(a, BigPower(2, n))
BigTimesPow10(a, n) == BigLimbs(BigTimes(a, 10 ^ (n % 3)), n \div 3)
\* the number written by decimal digits, and the decimal digits of a number
DigitAt(ds, j) == IF j < 1 THEN 0 ELSE HexVal(ds[j])
BigOfDigits(ds) ==
  BigTrim([i \in 1..((Len(ds) + 2) \div 3) |->
             100 * DigitAt(ds, Len(ds) - 3 * i + 1) + 10 * DigitAt(ds, Len(ds) - 3 * i + 2)
             + DigitAt(ds, Len(ds) - 3 * i + 3)])
DigitsOfBig(a) ==
  DropZeros([j \in 1..(3 * Len(a)) |->
               HexDigits[((a[Len(a) - ((j - 1) \div 3)] \div (10 ^ (2 - ((j - 1) % 3)))) % 10) + 1]])
BigOdd(a) == a # <<>> /\ a[1] % 2 = 1

\* the doubles: zero, infinity, and q * 2^e with q below 2^53 and, when e
\* is above -1074, at least 2^52; the largest is (2^53 - 1) * 2^971
FloatZero == [k |-> "zero"]
FloatInf == [k |-> "inf"]
Two52 == <<496, 370, 627, 599, 503, 4>>
Two53 == <<992, 740, 254, 199, 7, 9>>
\* a double has 52 fraction bits and binary exponents from -1022 to 1023
MinExp == 0 - (1022 + 52)
MaxExp == 1023 - 52
FloatOf(q, e) == IF e > MaxExp THEN FloatInf ELSE [k |-> "finite", q |-> q, e |-> e]
\* the next binary digit, and the next n binary digits, of the quotient of x
\* by t, for x below 2t, after the digits in q: the quotient and the
\* remainder.  The later digits are those of twice the remainder h.r
QuotientBit(x, t, q) ==
  [q |-> BigPlusInt(BigTimes(q, 2), IF BigLess(x, t) THEN 0 ELSE 1),
   r |-> IF BigLess(x, t) THEN x ELSE BigMinus(x, t)]
RECURSIVE QuotientBits(_, _, _, _)
RECURSIVE QuotientLater(_, _, _)
QuotientBits(x, t, q, n) ==
  IF n = 1 THEN QuotientBit(x, t, q)
  ELSE QuotientLater(QuotientBits(x, t, q, n \div 2), t, n - (n \div 2))
QuotientLater(h, t, n) == QuotientBits(BigTimes(h.r, 2), t, h.q, n)
\* the quotient rounded to the nearest integer, to the even one of two that
\* are as near; a quotient that rounds up to 2^53 takes the next exponent
RoundsUp(qr, t) ==
  BigLess(t, BigTimes(qr.r, 2)) \/ (BigTimes(qr.r, 2) = t /\ BigOdd(qr.q))
FloatCarried(q, e) ==
  IF q = <<>> THEN FloatZero
  ELSE IF q = Two53 THEN FloatOf(Two52, e + 1)
  ELSE FloatOf(q, e)
FloatRounded(qr, t, e) ==
  FloatCarried(BigPlusInt(qr.q, IF RoundsUp(qr, t) THEN 1 ELSE 0), e)
\* the double nearest to x / y, which is below 2^59 * 2^e, t being y * 2^52:
\* the exponent is raised until x / (y * 2^e) is below 2^53
RECURSIVE FloatScaled(_, _, _)
FloatScaled(x, t, e) ==
  IF ~BigLess(x, BigTimes(t, 2)) THEN FloatScaled(x, BigTimes(t, 2), e + 1)
  ELSE FloatRounded(QuotientBits(x, t, <<>>, 53), t, e)
\* the double nearest to sig * 10^q, whose binary exponent is at least e:
\* the number is x / y for two natural numbers, 10^q and 2^e being on the
\* side their sign says
FloatRatio(sig, q, e) ==
  FloatScaled(BigShift(BigTimesPow10(BigOfDigits(sig), Max(0, q)), Max(0, 0 - e)),
              BigShift(BigTimesPow10(<<1>>, Max(0, 0 - q)), Max(0, e) + 52),
              e)
\* float() of d.ddd * 10^e10, sig being the digits d from the first to the
\* last that is not zero: a number of 10^310 or more is infinity, one below
\* 10^-324 is zero; otherwise its binary exponent is at least
\* e10 * log2(10) - 1, and not below that of the least doubles
FloatNearest(sig, e10) ==
  IF e10 > 309 THEN FloatInf
  ELSE IF e10 < -325 THEN FloatZero
  ELSE FloatRatio(sig, e10 - Len(sig) + 1, Max(MinExp, ((e10 * 3321928) \div 1000000) - 53))

\* ds + 1, for decimal digits ds that are not all 9
RECURSIVE DigitsPlusOne(_)
DigitsPlusOne(ds) ==
  IF ds[Len(ds)] = "9" THEN DigitsPlusOne(SubSeq(ds, 1, Len(ds) - 1)) \o <<"0">>
  ELSE SubSeq(ds, 1, Len(ds) - 1) \o <<HexDigits[HexVal(ds[Len(ds)]) + 2]>>
DigitsPadded(ds, n) == Zeros(n - Len(ds)) \o ds
\* a multiple of 10^p is among the numbers from lo to hi, written with the
\* same count of digits
MultipleWithin(lo, hi, p) ==
  \/ ~DigitsAtLeast(SubSeq(lo, 1, Len(hi) - p), SubSeq(hi, 1, Len(hi) - p))
  \/ \A i \in (Len(hi) - p + 1)..Len(hi) : lo[i] = "0"
\* the highest place p, from p on, with a multiple of 10^p from lo to hi
RECURSIVE HighestPlace(_, _, _)
HighestPlace(lo, hi, p) ==
  IF p + 1 <= Len(hi) - 2 /\ MultipleWithin(lo, hi, p + 1)
  THEN HighestPlace(lo, hi, p + 1) ELSE p
\* v rounded to the place p, without its p zeros: down are its digits down
\* to that place and rest the p after them; the even digit of two multiples
\* of 10^p that are as near
RoundedFrom(down, rest, p) ==
  IF /\ p > 0
     /\ DigitsAtLeast(rest, <<"5">>)
     /\ (rest # <<"5">> \o Zeros(p - 1) \/ HexVal(down[Len(down)]) % 2 = 1)
  THEN DigitsPlusOne(down) ELSE down
\* the least multiple of 10^p from lo on, without its p zeros
LeastMultiple(lo, p) ==
  IF \A i \in (Len(lo) - p + 1)..Len(lo) : lo[i] = "0" THEN SubSeq(lo, 1, Len(lo) - p)
  ELSE DigitsPlusOne(SubSeq(lo, 1, Len(lo) - p))
DigitsWithin(least, rounded, greatest) ==
  IF ~DigitsAtLeast(rounded, least) THEN least
  ELSE IF ~DigitsAtLeast(greatest, rounded) THEN greatest
  ELSE rounded
\* the multiple of 10^p nearest to v among those from lo to hi, without its
\* p zeros: v rounded to that place, or the least or the greatest multiple
\* when that is outside
NearestMultiple(lo, v, hi, p) ==
  DigitsWithin(LeastMultiple(lo, p),
               RoundedFrom(SubSeq(v, 1, Len(v) - p), SubSeq(v, Len(v) - p + 1, Len(v)), p),
               SubSeq(hi, 1, Len(hi) - p))
\* the significant digits c * 10^p are, and the power of ten of the first
ShortestOf(c, p) == [sig |-> DropEndZeros(c), e |-> Len(c) - 1 + p]
\* the decimal digits of the shortest number that float() reads as the
\* double q * 2^e, and the power of ten of the first of them.  The numbers
\* read as that double are those up to half-way to the next double below and
\* above, the half-way ones included when q is even; in units of 10^s they
\* are the natural numbers from lo to hi, the double itself being v, here
\* written with as many digits as hi after a zero
ShortestAt(lo, v, hi, p, s) == ShortestOf(DropZeros(NearestMultiple(lo, v, hi, p)), p + s)
ShortestIn(d, s) ==
  ShortestAt(d[1], d[2], d[3], HighestPlace(d[1], d[3], Max(0, Len(d[3]) - 20)), s)
ShortestAmong(ds, s) == ShortestIn([i \in 1..3 |-> DigitsPadded(ds[i], Len(ds[3]) + 1)], s)
FloatShortestOf(n, s) == ShortestAmong([i \in 1..3 |-> DigitsOfBig(n[i])], s)
\* in quarters of 2^e the double is 4q and the half-way numbers are 4q - 2,
\* or 4q - 1 when the double below is half as far, and 4q + 2; a quarter
\* is 2^(e - 2), or 5^(2 - e) * 10^(e - 2)
FloatQuarter(e) == BigPower(IF e >= 2 THEN 2 ELSE 5, IF e >= 2 THEN e - 2 ELSE 2 - e)
FloatBounds(q, e, unit, half, open) ==
  FloatShortestOf(
    [i \in 1..3 |-> BigPlusInt(BigProduct(BigPlusInt(BigTimes(q, 4), half[i]), unit), open[i])],
    IF e >= 2 THEN 0 ELSE e - 2)
FloatShortest(q, e) ==
  FloatBounds(q, e, FloatQuarter(e),
              <<IF q = Two52 /\ e > MinExp THEN -1 ELSE -2, 0, 2>>,
              <<IF BigOdd(q) THEN 1 ELSE 0, 0, IF BigOdd(q) THEN -1 ELSE 0>>)

\* repr of a float in fixed notation: sig are its significant digits and
\* decpt the place of the decimal point after the first of them
FloatFixed(sig, decpt) ==
  IF decpt <= 0 THEN <<"0", ".">> \o Zeros(0 - decpt) \o sig
  ELSE IF decpt >= Len(sig) THEN sig \o Zeros(decpt - Len(sig)) \o <<".", "0">>
  ELSE SubSeq(sig, 1, decpt) \o <<".">> \o SubSeq(sig, decpt + 1, Len(sig))
\* repr of a float in exponent notation: d.ddde+XX, the exponent with its
\* sign and at least two digits
FloatExp(sig, e) ==
  <<sig[1]>> \o (IF Len(sig) > 1 THEN <<".">> \o Tail(sig) ELSE <<>>)
  \o <<"e", IF e < 0 THEN "-" ELSE "+">>
  \o (IF e > -10 /\ e < 10 THEN <<"0">> ELSE <<>>) \o NatToStr(IF e < 0 THEN 0 - e ELSE e)
\* fixed notation when the decimal point is after -4 and up to 16 places
\* from the first digit
FloatText(r) ==
  IF r = FloatInf THEN <<"i", "n", "f">>
  ELSE IF r = FloatZero THEN <<"0", ".", "0">>
  ELSE IF r.e + 1 > -4 /\ r.e + 1 <= 16 THEN FloatFixed(r.sig, r.e + 1)
  ELSE FloatExp(r.sig, r.e)
\* the shortest digits that read back as a double
FloatShortestFor(x) == IF x.k = "finite" THEN FloatShortest(x.q, x.e) ELSE x
\* repr of the double nearest to d.ddd * 10^e with significant digits sig.
\* Two numbers of up to 15 significant digits between 10^-307 and 10^308
\* are never read as the same double (DBL_DIG is 15), so the digits of such
\* a number are themselves the shortest that read back as its double
FloatDigits(x) ==
  FloatText(IF x.sig = <<>> THEN FloatZero
            ELSE IF Len(x.sig) <= 15 /\ x.e >= -307 /\ x.e <= 307 THEN x
            ELSE FloatShortestFor(FloatNearest(x.sig, x.e)))
\* the exponent written after the e of a number literal; one of more than
\* six digits is as good as one of six nines
ExpDigits(ds) == IF Len(ds) > 6 THEN 999999 ELSE IntValue(ds)
ExpValue(s) ==
  IF s = <<>> THEN 0
  ELSE IF s[1] = "-" THEN 0 - ExpDigits(DropZeros(Tail(s)))
  ELSE ExpDigits(DropZeros(IF s[1] = "+" THEN Tail(s) ELSE s))
\* the mantissa of a number literal, int before the point and frac after
\* it: its digits without the leading and the trailing zeros, and the power
\* of ten of the first of them
FloatMantissa(int, frac, exp) ==
  [sig |-> DropEndZeros(DropZeros(int \o frac)),
   e |-> Len(DropZeros(int \o frac)) - Len(frac) - 1 + exp]
FloatPointed(mant, dot, exp) ==
  FloatMantissa(SubSeq(mant, 1, dot - 1), SubSeq(mant, dot + 1, Len(mant)), exp)
FloatLiteral(body, e) ==
  FloatPointed(SubSeq(body, 1, e - 1), Find(SubSeq(body, 1, e - 1), {"."}),
               ExpValue(SubSeq(body, e + 1, Len(body))))
\* the number a literal writes, sign apart
FloatUnsigned(text) ==
  IF text[1] = "-" THEN FloatLiteral(Tail(text), Find(Tail(text), {"e", "E"}))
  ELSE FloatLiteral(text, Find(text, {"e", "E"}))
FloatSpecial == {<<"n", "a", "n">>, <<"i", "n", "f">>, <<"-", "i", "n", "f">>}
\* repr(x) of the float x whose literal is text: nan, inf, -inf, or the
\* shortest decimal text that reads back as x
FloatRepr(text) ==
  IF text \in FloatSpecial THEN text
  ELSE (IF text[1] = "-" THEN <<"-">> ELSE <<>>) \o FloatDigits(FloatUnsigned(text))
\* the digits of half the least double: 2^-1075 is 5^1075 * 10^-1075, which
\* is 2.47... * 10^-324
LeastHalf == DigitsOfBig(BigPower(5, 1075))
\* a number up to half the least double is read as zero
ReadsAsZero(x) ==
  x.sig = <<>> \/ x.e < -324 \/ (x.e = -324 /\ DigitsAtLeast(LeastHalf, x.sig))
\* x = 0 for the float x whose literal is text
FloatIsZero(text) == text \notin FloatSpecial /\ ReadsAsZero(FloatUnsigned(text))

\* the code points from U+0080 on of the characters str.isprintable rejects:
\* the controls, the format characters, the surrogates, the private use and
\* the unassigned code points, and the separators
NonPrintableRanges ==
  {<<128, 160>>, <<173, 173>>, <<888, 889>>, <<896, 899>>, <<907, 907>>, <<909, 909>>,
   <<930, 930>>, <<1328, 1328>>, <<1367, 1368>>, <<1419, 1420>>, <<1424, 1424>>,
   <<1480, 1487>>, <<1515, 1518>>, <<1525, 1541>>, <<1564, 1564>>, <<1757, 1757>>,
   <<1806, 1807>>, <<1867, 1868>>, <<1970, 1983>>, <<2043, 2044>>, <<2094, 2095>>,
   <<2111, 2111>>, <<2140, 2141>>, <<2143, 2143>>, <<2155, 2159>>, <<2191, 2199>>,
   <<2274, 2274>>, <<2436, 2436>>, <<2445, 2446>>, <<2449, 2450>>, <<2473, 2473>>,
   <<2481, 2481>>, <<2483, 2485>>, <<2490, 2491>>, <<2501, 2502>>, <<2505, 2506>>,
   <<2511, 2518>>, <<2520, 2523>>, <<2526, 2526>>, <<2532, 2533>>, <<2559, 2560>>,
   <<2564, 2564>>, <<2571, 2574>>, <<2577, 2578>>, <<2601, 2601>>, <<2609, 2609>>,
   <<2612, 2612>>, <<2615, 2615>>, <<2618, 2619>>, <<2621, 2621>>, <<2627, 2630>>,
   <<2633, 2634>>, <<2638, 2640>>, <<2642, 2648>>, <<2653, 2653>>, <<2655, 2661>>,
   <<2679, 2688>>, <<2692, 2692>>, <<2702, 2702>>, <<2706, 2706>>, <<2729, 2729>>,
   <<2737, 2737>>, <<2740, 2740>>, <<2746, 2747>>, <<2758, 2758>>, <<2762, 2762>>,
   <<2766, 2767>>, <<2769, 2783>>, <<2788, 2789>>, <<2802, 2808>>, <<2816, 2816>>,
   <<2820, 2820>>, <<2829, 2830>>, <<2833, 2834>>, <<2857, 2857>>, <<2865, 2865>>,
   <<2868, 2868>>, <<2874, 2875>>, <<2885, 2886>>, <<2889, 2890>>, <<2894, 2900>>,
   <<2904, 2907>>, <<2910, 2910>>, <<2916, 2917>>, <<2936, 2945>>, <<2948, 2948>>,
   <<2955, 2957>>, <<2961, 2961>>, <<2966, 2968>>, <<2971, 2971>>, <<2973, 2973>>,
   <<2976, 2978>>, <<2981, 2983>>, <<2987, 2989>>, <<3002, 3005>>, <<3011, 3013>>,
   <<3017, 3017>>, <<3022, 3023>>, <<3025, 3030>>, <<3032, 3045>>, <<3067, 3071>>,
   <<3085, 3085>>, <<3089, 3089>>, <<3113, 3113>>, <<3130, 3131>>, <<3141, 3141>>,
   <<3145, 3145>>, <<3150, 3156>>, <<3159, 3159>>, <<3163, 3164>>, <<3166, 3167>>,
   <<3172, 3173>>, <<3184, 3190>>, <<3213, 3213>>, <<3217, 3217>>, <<3241, 3241>>,
   <<3252, 3252>>, <<3258, 3259>>, <<3269, 3269>>, <<3273, 3273>>, <<3278, 3284>>,
   <<3287, 3292>>, <<3295, 3295>>, <<3300, 3301>>, <<3312, 3312>>, <<3315, 3327>>,
   <<3341, 3341>>, <<3345, 3345>>, <<3397, 3397>>, <<3401, 3401>>, <<3408, 3411>>,
   <<3428, 3429>>, <<3456, 3456>>, <<3460, 3460>>, <<3479, 3481>>, <<3506, 3506>>,
   <<3516, 3516>>, <<3518, 3519>>, <<3527, 3529>>, <<3531, 3534>>, <<3541, 3541>>,
   <<3543, 3543>>, <<3552, 3557>>, <<3568, 3569>>, <<3573, 3584>>, <<3643, 3646>>,
   <<3676, 3712>>, <<3715, 3715>>, <<3717, 3717>>, <<3723, 3723>>, <<3748, 3748>>,
   <<3750, 3750>>, <<3774, 3775>>, <<3781, 3781>>, <<3783, 3783>>, <<3790, 3791>>,
   <<3802, 3803>>, <<3808, 3839>>, <<3912, 3912>>, <<3949, 3952>>, <<3992, 3992>>,
   <<4029, 4029>>, <<4045, 4045>>, <<4059, 4095>>, <<4294, 4294>>, <<4296, 4300>>,
   <<4302, 4303>>, <<4681, 4681>>, <<4686, 4687>>, <<4695, 4695>>, <<4697, 4697>>,
   <<4702, 4703>>, <<4745, 4745>>, <<4750, 4751>>, <<4785, 4785>>, <<4790, 4791>>,
   <<4799, 4799>>, <<4801, 4801>>, <<4806, 4807>>, <<4823, 4823>>, <<4881, 4881>>,
   <<4886, 4887>>, <<4955, 4956>>, <<4989, 4991>>, <<5018, 5023>>, <<5110, 5111>>,
   <<5118, 5119>>, <<5760, 5760>>, <<5789, 5791>>, <<5881, 5887>>, <<5910, 5918>>,
   <<5943, 5951>>, <<5972, 5983>>, <<5997, 5997>>, <<6001, 6001>>, <<6004, 6015>>,
   <<6110, 6111>>, <<6122, 6127>>, <<6138, 6143>>, <<6158, 6158>>, <<6170, 6175>>,
   <<6265, 6271>>, <<6315, 6319>>, <<6390, 6399>>, <<6431, 6431>>, <<6444, 6447>>,
   <<6460, 6463>>, <<6465, 6467>>, <<6510, 6511>>, <<6517, 6527>>, <<6572, 6575>>,
   <<6602, 6607>>, <<6619, 6621>>, <<6684, 6685>>, <<6751, 6751>>, <<6781, 6782>>,
   <<6794, 6799>>, <<6810, 6815>>, <<6830, 6831>>, <<6863, 6911>>, <<6989, 6991>>,
   <<7039, 7039>>, <<7156, 7163>>, <<7224, 7226>>, <<7242, 7244>>, <<7305, 7311>>,
   <<7355, 7356>>, <<7368, 7375>>, <<7419, 7423>>, <<7958, 7959>>, <<7966, 7967>>,
   <<8006, 8007>>, <<8014, 8015>>, <<8024, 8024>>, <<8026, 8026>>, <<8028, 8028>>,
   <<8030, 8030>>, <<8062, 8063>>, <<8117, 8117>>, <<8133, 8133>>, <<8148, 8149>>,
   <<8156, 8156>>, <<8176, 8177>>, <<8181, 8181>>, <<8191, 8207>>, <<8232, 8239>>,
   <<8287, 8303>>, <<8306, 8307>>, <<8335, 8335>>, <<8349, 8351>>, <<8385, 8399>>,
   <<8433, 8447>>, <<8588, 8591>>, <<9255, 9279>>, <<9291, 9311>>, <<11124, 11125>>,
   <<11158, 11158>>, <<11508, 11512>>, <<11558, 11558>>, <<11560, 11564>>,
   <<11566, 11567>>, <<11624, 11630>>, <<11633, 11646>>, <<11671, 11679>>,
   <<11687, 11687>>, <<11695, 11695>>, <<11703, 11703>>, <<11711, 11711>>,
   <<11719, 11719>>, <<11727, 11727>>, <<11735, 11735>>, <<11743, 11743>>,
   <<11870, 11903>>, <<11930, 11930>>, <<12020, 12031>>, <<12246, 12271>>,
   <<12284, 12288>>, <<12352, 12352>>, <<12439, 12440>>, <<12544, 12548>>,
   <<12592, 12592>>, <<12687, 12687>>, <<12772, 12783>>, <<12831, 12831>>,
   <<42125, 42127>>, <<42183, 42191>>, <<42540, 42559>>, <<42744, 42751>>,
   <<42955, 42959>>, <<42962, 42962>>, <<42964, 42964>>, <<42970, 42993>>,
   <<43053, 43055>>, <<43066, 43071>>, <<43128, 43135>>, <<43206, 43213>>,
   <<43226, 43231>>, <<43348, 43358>>, <<43389, 43391>>, <<43470, 43470>>,
   <<43482, 43485>>, <<43519, 43519>>, <<43575, 43583>>, <<43598, 43599>>,
   <<43610, 43611>>, <<43715, 43738>>, <<43767, 43776>>, <<43783, 43784>>,
   <<43791, 43792>>, <<43799, 43807>>, <<43815, 43815>>, <<43823, 43823>>,
   <<43884, 43887>>, <<44014, 44015>>, <<44026, 44031>>, <<55204, 55215>>,
   <<55239, 55242>>, <<55292, 63743>>, <<64110, 64111>>, <<64218, 64255>>,
   <<64263, 64274>>, <<64280, 64284>>, <<64311, 64311>>, <<64317, 64317>>,
   <<64319, 64319>>, <<64322, 64322>>, <<64325, 64325>>, <<64451, 64466>>,
   <<64912, 64913>>, <<64968, 64974>>, <<64976, 65007>>, <<65050, 65055>>,
   <<65107, 65107>>, <<65127, 65127>>, <<65132, 65135>>, <<65141, 65141>>,
   <<65277, 65280>>, <<65471, 65473>>, <<65480, 65481>>, <<65488, 65489>>,
   <<65496, 65497>>, <<65501, 65503>>, <<65511, 65511>>, <<65519, 65531>>,
   <<65534, 65535>>, <<65548, 65548>>, <<65575, 65575>>, <<65595, 65595>>,
   <<65598, 65598>>, <<65614, 65615>>, <<65630, 65663>>, <<65787, 65791>>,
   <<65795, 65798>>, <<65844, 65846>>, <<65935, 65935>>, <<65949, 65951>>,
   <<65953, 65999>>, <<66046, 66175>>, <<66205, 66207>>, <<66257, 66271>>,
   <<66300, 66303>>, <<66340, 66348>>, <<66379, 66383>>, <<66427, 66431>>,
   <<66462, 66462>>, <<66500, 66503>>, <<66518, 66559>>, <<66718, 66719>>,
   <<66730, 66735>>, <<66772, 66775>>, <<66812, 66815>>, <<66856, 66863>>,
   <<66916, 66926>>, <<66939, 66939>>, <<66955, 66955>>, <<66963, 66963>>,
   <<66966, 66966>>, <<66978, 66978>>, <<66994, 66994>>, <<67002, 67002>>,
   <<67005, 67071>>, <<67383, 67391>>, <<67414, 67423>>, <<67432, 67455>>,
   <<67462, 67462>>, <<67505, 67505>>, <<67515, 67583>>, <<67590, 67591>>,
   <<67593, 67593>>, <<67638, 67638>>, <<67641, 67643>>, <<67645, 67646>>,
   <<67670, 67670>>, <<67743, 67750>>, <<67760, 67807>>, <<67827, 67827>>,
   <<67830, 67834>>, <<67868, 67870>>, <<67898, 67902>>, <<67904, 67967>>,
   <<68024, 68027>>, <<68048, 68049>>, <<68100, 68100>>, <<68103, 68107>>,
   <<68116, 68116>>, <<68120, 68120>>, <<68150, 68151>>, <<68155, 68158>>,
   <<68169, 68175>>, <<68185, 68191>>, <<68256, 68287>>, <<68327, 68330>>,
   <<68343, 68351>>, <<68406, 68408>>, <<68438, 68439>>, <<68467, 68471>>,
   <<68498, 68504>>, <<68509, 68520>>, <<68528, 68607>>, <<68681, 68735>>,
   <<68787, 68799>>, <<68851, 68857>>, <<68904, 68911>>, <<68922, 69215>>,
   <<69247, 69247>>, <<69290, 69290>>, <<69294, 69295>>, <<69298, 69375>>,
   <<69416, 69423>>, <<69466, 69487>>, <<69514, 69551>>, <<69580, 69599>>,
   <<69623, 69631>>, <<69710, 69713>>, <<69750, 69758>>, <<69821, 69821>>,
   <<69827, 69839>>, <<69865, 69871>>, <<69882, 69887>>, <<69941, 69941>>,
   <<69960, 69967>>, <<70007, 70015>>, <<70112, 70112>>, <<70133, 70143>>,
   <<70162, 70162>>, <<70207, 70271>>, <<70279, 70279>>, <<70281, 70281>>,
   <<70286, 70286>>, <<70302, 70302>>, <<70314, 70319>>, <<70379, 70383>>,
   <<70394, 70399>>, <<70404, 70404>>, <<70413, 70414>>, <<70417, 70418>>,
   <<70441, 70441>>, <<70449, 70449>>, <<70452, 70452>>, <<70458, 70458>>,
   <<70469, 70470>>, <<70473, 70474>>, <<70478, 70479>>, <<70481, 70486>>,
   <<70488, 70492>>, <<70500, 70501>>, <<70509, 70511>>, <<70517, 70655>>,
   <<70748, 70748>>, <<70754, 70783>>, <<70856, 70863>>, <<70874, 71039>>,
   <<71094, 71095>>, <<71134, 71167>>, <<71237, 71247>>, <<71258, 71263>>,
   <<71277, 71295>>, <<71354, 71359>>, <<71370, 71423>>, <<71451, 71452>>,
   <<71468, 71471>>, <<71495, 71679>>, <<71740, 71839>>, <<71923, 71934>>,
   <<71943, 71944>>, <<71946, 71947>>, <<71956, 71956>>, <<71959, 71959>>,
   <<71990, 71990>>, <<71993, 71994>>, <<72007, 72015>>, <<72026, 72095>>,
   <<72104, 72105>>, <<72152, 72153>>, <<72165, 72191>>, <<72264, 72271>>,
   <<72355, 72367>>, <<72441, 72703>>, <<72713, 72713>>, <<72759, 72759>>,
   <<72774, 72783>>, <<72813, 72815>>, <<72848, 72849>>, <<72872, 72872>>,
   <<72887, 72959>>, <<72967, 72967>>, <<72970, 72970>>, <<73015, 73017>>,
   <<73019, 73019>>, <<73022, 73022>>, <<73032, 73039>>, <<73050, 73055>>,
   <<73062, 73062>>, <<73065, 73065>>, <<73103, 73103>>, <<73106, 73106>>,
   <<73113, 73119>>, <<73130, 73439>>, <<73465, 73647>>, <<73649, 73663>>,
   <<73714, 73726>>, <<74650, 74751>>, <<74863, 74863>>, <<74869, 74879>>,
   <<75076, 77711>>, <<77811, 77823>>, <<78895, 82943>>, <<83527, 92159>>,
   <<92729, 92735>>, <<92767, 92767>>, <<92778, 92781>>, <<92863, 92863>>,
   <<92874, 92879>>, <<92910, 92911>>, <<92918, 92927>>, <<92998, 93007>>,
   <<93018, 93018>>, <<93026, 93026>>, <<93048, 93052>>, <<93072, 93759>>,
   <<93851, 93951>>, <<94027, 94030>>, <<94088, 94094>>, <<94112, 94175>>,
   <<94181, 94191>>, <<94194, 94207>>, <<100344, 100351>>, <<101590, 101631>>,
   <<101641, 110575>>, <<110580, 110580>>, <<110588, 110588>>, <<110591, 110591>>,
   <<110883, 110927>>, <<110931, 110947>>, <<110952, 110959>>, <<111356, 113663>>,
   <<113771, 113775>>, <<113789, 113791>>, <<113801, 113807>>, <<113818, 113819>>,
   <<113824, 118527>>, <<118574, 118575>>, <<118599, 118607>>, <<118724, 118783>>,
   <<119030, 119039>>, <<119079, 119080>>, <<119155, 119162>>, <<119275, 119295>>,
   <<119366, 119519>>, <<119540, 119551>>, <<119639, 119647>>, <<119673, 119807>>,
   <<119893, 119893>>, <<119965, 119965>>, <<119968, 119969>>, <<119971, 119972>>,
   <<119975, 119976>>, <<119981, 119981>>, <<119994, 119994>>, <<119996, 119996>>,
   <<120004, 120004>>, <<120070, 120070>>, <<120075, 120076>>, <<120085, 120085>>,
   <<120093, 120093>>, <<120122, 120122>>, <<120127, 120127>>, <<120133, 120133>>,
   <<120135, 120137>>, <<120145, 120145>>, <<120486, 120487>>, <<120780, 120781>>,
   <<121484, 121498>>, <<121504, 121504>>, <<121520, 122623>>, <<122655, 122879>>,
   <<122887, 122887>>, <<122905, 122906>>, <<122914, 122914>>, <<122917, 122917>>,
   <<122923, 123135>>, <<123181, 123183>>, <<123198, 123199>>, <<123210, 123213>>,
   <<123216, 123535>>, <<123567, 123583>>, <<123642, 123646>>, <<123648, 124895>>,
   <<124903, 124903>>, <<124908, 124908>>, <<124911, 124911>>, <<124927, 124927>>,
   <<125125, 125126>>, <<125143, 125183>>, <<125260, 125263>>, <<125274, 125277>>,
   <<125280, 126064>>, <<126133, 126208>>, <<126270, 126463>>, <<126468, 126468>>,
   <<126496, 126496>>, <<126499, 126499>>, <<126501, 126502>>, <<126504, 126504>>,
   <<126515, 126515>>, <<126520, 126520>>, <<126522, 126522>>, <<126524, 126529>>,
   <<126531, 126534>>, <<126536, 126536>>, <<126538, 126538>>, <<126540, 126540>>,
   <<126544, 126544>>, <<126547, 126547>>, <<126549, 126550>>, <<126552, 126552>>,
   <<126554, 126554>>, <<126556, 126556>>, <<126558, 126558>>, <<126560, 126560>>,
   <<126563, 126563>>, <<126565, 126566>>, <<126571, 126571>>, <<126579, 126579>>,
   <<126584, 126584>>, <<126589, 126589>>, <<126591, 126591>>, <<126602, 126602>>,
   <<126620, 126624>>, <<126628, 126628>>, <<126634, 126634>>, <<126652, 126703>>,
   <<126706, 126975>>, <<127020, 127023>>, <<127124, 127135>>, <<127151, 127152>>,
   <<127168, 127168>>, <<127184, 127184>>, <<127222, 127231>>, <<127406, 127461>>,
   <<127491, 127503>>, <<127548, 127551>>, <<127561, 127567>>, <<127570, 127583>>,
   <<127590, 127743>>, <<128728, 128732>>, <<128749, 128751>>, <<128765, 128767>>,
   <<128884, 128895>>, <<128985, 128991>>, <<129004, 129007>>, <<129009, 129023>>,
   <<129036, 129039>>, <<129096, 129103>>, <<129114, 129119>>, <<129160, 129167>>,
   <<129198, 129199>>, <<129202, 129279>>, <<129620, 129631>>, <<129646, 129647>>,
   <<129653, 129655>>, <<129661, 129663>>, <<129671, 129679>>, <<129709, 129711>>,
   <<129723, 129727>>, <<129734, 129743>>, <<129754, 129759>>, <<129768, 129775>>,
   <<129783, 129791>>, <<129939, 129939>>, <<129995, 130031>>, <<130042, 131071>>,
   <<173792, 173823>>, <<177977, 177983>>, <<178206, 178207>>, <<183970, 183983>>,
   <<191457, 194559>>, <<195102, 196607>>, <<201547, 917759>>, <<918000, 1114111>>}
\* n in lower-case hexadecimal, of the given width
HexPadded(n, width) == [i \in 1..width |-> HexLower[((n \div (16 ^ (width - i))) % 16) + 1]]
\* a character in the repr of a text: the quote of the repr and the
\* backslash after a backslash; tab, line feed and carriage return by their
\* letter; another control character, and a character from U+0080 on that
\* is not printable, by its code point, as \xXX, \uXXXX or \UXXXXXXXX
ReprCodePoint(c, n) ==
  IF n >= 32 /\ n < 127 THEN <<c>>
  ELSE IF n >= 128 /\ ~\E r \in NonPrintableRanges : n >= r[1] /\ n <= r[2] THEN <<c>>
  ELSE IF n < 256 THEN <<"\\", "x">> \o HexPadded(n, 2)
  ELSE IF n < 65536 THEN <<"\\", "u">> \o HexPadded(n, 4)
  ELSE <<"\\", "U">> \o HexPadded(n, 8)
ReprChar(c, quote) ==
  CASE c \in {quote, "\\"} -> <<"\\", c>>
    [] c = "\t" -> <<"\\", "t">>
    [] c = "\n" -> <<"\\", "n">>
    [] c = "\r" -> <<"\\", "r">>
    [] c = "\f" -> <<"\\", "x", "0", "c">>
    [] OTHER -> IF Len(c) = 1 THEN <<c>> ELSE ReprCodePoint(c, CodePointOf(c))
RECURSIVE ReprChars(_, _)
ReprChars(chars, quote) ==
  IF chars = <<>> THEN <<>>
  ELSE ReprChar(chars[1], quote) \o ReprChars(Tail(chars), quote)
\* repr of a text: between single quotes, or between double quotes when it
\* has a single quote and no double quote
ReprQuoted(chars, quote) == <<quote>> \o ReprChars(chars, quote) \o <<quote>>
ReprStr(chars) ==
  ReprQuoted(chars, IF (\E i \in 1..Len(chars) : chars[i] = "'")
                       /\ ~(\E i \in 1..Len(chars) : chars[i] = "\"")
                    THEN "\"" ELSE "'")
\* repr(value) of None, a bool, a number, a text, a list, a tuple or a dict
RECURSIVE PyRepr(_)
RECURSIVE ReprItems(_)
ReprItems(items) ==
  IF items = <<>> THEN <<>>
  ELSE PyRepr(items[1])
       \o (IF Len(items) > 1 THEN <<",", " ">> ELSE <<>>) \o ReprItems(Tail(items))
RECURSIVE ReprPairs(_, _)
ReprPairs(v, keys) ==
  IF keys = <<>> THEN <<>>
  ELSE ReprStr(KeyText(keys[1])) \o <<":", " ">> \o PyRepr(v.d[keys[1]])
       \o (IF Len(keys) > 1 THEN <<",", " ">> ELSE <<>>) \o ReprPairs(v, Tail(keys))
PyRepr(v) ==
  CASE v.t = "none" -> <<"N", "o", "n", "e">>
    [] v.t = "bool" -> IF v.b THEN <<"T", "r", "u", "e">> ELSE <<"F", "a", "l", "s", "e">>
    [] v.t = "int" -> IntToStr(v.n)
    [] v.t = "float" -> FloatRepr(v.text)
    [] v.t = "str" -> ReprStr(v.s)
    [] v.t = "list" -> <<"[">> \o ReprItems(v.items) \o <<"]">>
    [] v.t = "tuple" ->
         <<"(">> \o ReprItems(v.items)
         \o (IF Len(v.items) = 1 THEN <<",">> ELSE <<>>) \o <<")">>
    [] v.t = "dict" -> <<"{">> \o ReprPairs(v, v.keys) \o <<"}">>
\* str(value): a text is itself, every other value is its repr
StrOf(v) == IF v.t = "str" THEN v.s ELSE PyRepr(v)

\* ------------------------------------------------------------ json.loads
\* the whitespace of the JSON grammar
JsonWhitespace == {" ", "\t", "\n", "\r"}
RECURSIVE JsonSkip(_)
JsonSkip(s) == IF s # <<>> /\ s[1] \in JsonWhitespace THEN JsonSkip(Tail(s)) ELSE s

\* the value of the four hexadecimal digits s[i..i+3]
Hex4(s, i) ==
  4096 * HexVal(s[i]) + 256 * HexVal(s[i + 1]) + 16 * HexVal(s[i + 2]) + HexVal(s[i + 3])
\* an escape \uXXXX stands at s[i]
IsEscapeU(s, i) ==
  /\ Len(s) >= i + 5 /\ s[i] = "\\" /\ s[i + 1] = "u"
  /\ \A k \in (i + 2)..(i + 5) : IsHex(s[k])
\* the escape at s[1] is a high surrogate and the escape of a low surrogate
\* follows it: the two stand for one character
IsSurrogatePair(s) ==
  /\ Hex4(s, 3) \in 55296..56319
  /\ IsEscapeU(s, 7)
  /\ Hex4(s, 9) \in 56320..57343
\* the characters below U+0020, which a JSON string may not hold unescaped
ControlChars ==
  {"\t", "\n", "\f", "\r"} \cup { CodePointChar(n) : n \in (0..31) \ {9, 10, 12, 13} }

JsonFail == [ok |-> FALSE]
JsonAt(v, rest) == [ok |-> TRUE, val |-> v, rest |-> rest]
StartsWith(s, prefix) == Len(s) >= Len(prefix) /\ SubSeq(s, 1, Len(prefix)) = prefix
Drop(s, n) == SubSeq(s, n + 1, Len(s))
\* the longest prefix of s made of decimal digits
RECURSIVE DigitRun(_)
DigitRun(s) ==
  IF s # <<>> /\ s[1] \in AsciiDigits THEN <<s[1]>> \o DigitRun(Tail(s)) ELSE <<>>

\* a string, after its opening quote; acc holds the characters read
RECURSIVE JsonStringBody(_, _)
JsonStringBody(s, acc) ==
  IF s = <<>> THEN JsonFail
  ELSE IF s[1] = "\"" THEN JsonAt(acc, Tail(s))
  ELSE IF s[1] \in ControlChars THEN JsonFail
  ELSE IF s[1] # "\\" THEN JsonStringBody(Tail(s), Append(acc, s[1]))
  ELSE IF Len(s) < 2 THEN JsonFail
  ELSE IF s[2] \in {"\"", "\\", "/"} THEN JsonStringBody(Drop(s, 2), Append(acc, s[2]))
  ELSE IF s[2] = "b" THEN JsonStringBody(Drop(s, 2), Append(acc, CodePointChar(8)))
  ELSE IF s[2] = "f" THEN JsonStringBody(Drop(s, 2), Append(acc, "\f"))
  ELSE IF s[2] = "n" THEN JsonStringBody(Drop(s, 2), Append(acc, "\n"))
  ELSE IF s[2] = "r" THEN JsonStringBody(Drop(s, 2), Append(acc, "\r"))
  ELSE IF s[2] = "t" THEN JsonStringBody(Drop(s, 2), Append(acc, "\t"))
  ELSE IF ~IsEscapeU(s, 1) THEN JsonFail
  ELSE IF IsSurrogatePair(s)
  THEN JsonStringBody(Drop(s, 12),
         Append(acc, CodePointChar(65536 + 1024 * (Hex4(s, 3) - 55296)
                                   + (Hex4(s, 9) - 56320))))
  ELSE JsonStringBody(Drop(s, 6), Append(acc, CodePointChar(Hex4(s, 3))))

\* a number: an optional minus, then 0 or digits that start with a non-zero
\* one, then an optional fraction (a dot and digits), then an optional
\* exponent (e or E, an optional sign, digits); an int when it has neither
\* fraction nor exponent
NumberEnd(n) ==
  IF ~n.ok THEN JsonFail
  ELSE IF n.tail = <<>>
  THEN JsonAt(PyInt(IF n.neg THEN 0 - IntValue(n.int) ELSE IntValue(n.int)), n.rest)
  ELSE JsonAt(PyFloat(FloatRepr((IF n.neg THEN <<"-">> ELSE <<>>) \o n.int \o n.tail)),
              n.rest)
\* the length of the exponent at the head of s, 0 when there is none: e or
\* E, a sign or none, and digits
ExpLen(s) ==
  IF s = <<>> \/ s[1] \notin {"e", "E"} THEN 0
  ELSE With(IF Len(s) >= 2 /\ s[2] \in {"-", "+"} THEN 2 ELSE 1, LAMBDA skip :
         With(Len(DigitRun(Drop(s, skip))), LAMBDA n : IF n = 0 THEN 0 ELSE skip + n))
\* the parts of a number: its sign, its digits before the dot, its fraction
\* and exponent as written, and what follows it in the text
NumberExp(neg, int, frac, s) ==
  With(ExpLen(s), LAMBDA n :
    [ok |-> TRUE, neg |-> neg, int |-> int, tail |-> frac \o SubSeq(s, 1, n),
     rest |-> Drop(s, n)])
NumberFrac(neg, int, s) ==
  With(IF s # <<>> /\ s[1] = "." THEN DigitRun(Tail(s)) ELSE <<>>, LAMBDA run :
    NumberExp(neg, int, IF run = <<>> THEN <<>> ELSE <<".">> \o run,
              IF run = <<>> THEN s ELSE Drop(s, 1 + Len(run))))
NumberInt(neg, s) ==
  With(DigitRun(s), LAMBDA run :
    IF run = <<>> THEN JsonFail
    ELSE NumberFrac(neg, IF run[1] = "0" THEN <<"0">> ELSE run,
                    IF run[1] = "0" THEN Tail(s) ELSE Drop(s, Len(run))))
\* the parts of the number at the head of s
NumberParts(s) ==
  With(s # <<>> /\ s[1] = "-", LAMBDA neg : NumberInt(neg, IF neg THEN Tail(s) ELSE s))
\* the number at the head of s, from its parts, which are read once
JsonNumber(s) == CHOOSE r \in { NumberEnd(n) : n \in {NumberParts(s)} } : TRUE

\* a value at the head of s, and what follows it
RECURSIVE JsonValue(_)
RECURSIVE JsonElements(_, _)
RECURSIVE JsonMembers(_, _)
JsonValue(s) ==
  IF s = <<>> THEN JsonFail
  ELSE IF s[1] = "\""
  THEN With(JsonStringBody(Tail(s), <<>>), LAMBDA r :
         IF r.ok THEN JsonAt(PyStr(r.val), r.rest) ELSE JsonFail)
  ELSE IF s[1] = "["
  THEN With(JsonSkip(Tail(s)), LAMBDA t :
         IF t # <<>> /\ t[1] = "]" THEN JsonAt(PyList(<<>>), Tail(t))
         ELSE JsonElements(t, <<>>))
  ELSE IF s[1] = "{"
  THEN With(JsonSkip(Tail(s)), LAMBDA t :
         IF t # <<>> /\ t[1] = "}" THEN JsonAt(PyDict(<<>>), Tail(t))
         ELSE JsonMembers(t, <<>>))
  ELSE IF StartsWith(s, <<"n", "u", "l", "l">>) THEN JsonAt(PyNone, Drop(s, 4))
  ELSE IF StartsWith(s, <<"t", "r", "u", "e">>) THEN JsonAt(PyBool(TRUE), Drop(s, 4))
  ELSE IF StartsWith(s, <<"f", "a", "l", "s", "e">>) THEN JsonAt(PyBool(FALSE), Drop(s, 5))
  ELSE IF StartsWith(s, <<"N", "a", "N">>) THEN JsonAt(PyFloat(<<"n", "a", "n">>), Drop(s, 3))
  ELSE IF StartsWith(s, <<"I", "n", "f", "i", "n", "i", "t", "y">>)
  THEN JsonAt(PyFloat(<<"i", "n", "f">>), Drop(s, 8))
  ELSE IF StartsWith(s, <<"-", "I", "n", "f", "i", "n", "i", "t", "y">>)
  THEN JsonAt(PyFloat(<<"-", "i", "n", "f">>), Drop(s, 9))
  ELSE JsonNumber(s)

\* the elements of an array after `[` or `,`; acc holds the ones read
ElementRead(r, t, acc) ==
  IF t = <<>> THEN JsonFail
  ELSE IF t[1] = "]" THEN JsonAt(PyList(Append(acc, r.val)), Tail(t))
  ELSE IF t[1] = "," THEN JsonElements(Tail(t), Append(acc, r.val))
  ELSE JsonFail
JsonElements(s, acc) ==
  With(JsonValue(JsonSkip(s)), LAMBDA r :
    IF ~r.ok THEN JsonFail ELSE ElementRead(r, JsonSkip(r.rest), acc))

\* the members of an object after `{` or `,`; acc holds the (key, value)
\* pairs read, of which the dict is made
MemberRead(key, r, t, acc) ==
  With(Append(acc, <<key, r.val>>), LAMBDA items :
    IF t = <<>> THEN JsonFail
    ELSE IF t[1] = "}" THEN JsonAt(PyDict(items), Tail(t))
    ELSE IF t[1] = "," THEN JsonMembers(Tail(t), items)
    ELSE JsonFail)
MemberValue(k, c, acc) ==
  IF c = <<>> \/ c[1] # ":" THEN JsonFail
  ELSE With(JsonValue(JsonSkip(Tail(c))), LAMBDA r :
         IF ~r.ok THEN JsonFail ELSE MemberRead(KeyName(k.val), r, JsonSkip(r.rest), acc))
MemberKey(s, acc) ==
  IF s = <<>> \/ s[1] # "\"" THEN JsonFail
  ELSE With(JsonStringBody(Tail(s), <<>>), LAMBDA k :
         IF ~k.ok THEN JsonFail ELSE MemberValue(k, JsonSkip(k.rest), acc))
JsonMembers(s, acc) == MemberKey(JsonSkip(s), acc)

\* json.loads(text): the value of the one JSON document the text holds;
\* TypeError for what is not a text
JsonLoads(text) ==
  IF ~IsStr(text) THEN [ok |-> FALSE, err |-> "TypeError"]
  ELSE With(JsonValue(JsonSkip(text.s)), LAMBDA r :
         IF r.ok /\ JsonSkip(r.rest) = <<>>
         THEN [ok |-> TRUE, val |-> r.val]
         ELSE [ok |-> FALSE, err |-> "JSONDecodeError"])

\* ------------------------------------------------------------ json.dumps
\* \uXXXX, in lower-case hexadecimal
EscapeU(n) ==
  <<"\\", "u", HexLower[(n \div 4096) + 1], HexLower[((n \div 256) % 16) + 1],
    HexLower[((n \div 16) % 16) + 1], HexLower[(n % 16) + 1]>>
\* a character inside a string of the output (ensure_ascii): the
\* characters U+0020..U+007E stand for themselves, the quote and the backslash
\* after a backslash; backspace, form feed, line feed, carriage return and tab
\* have their letter; every other character is \uXXXX, a character above
\* U+FFFF the \uXXXX of its two surrogates
JsonEscape(c) ==
  CASE c = "\"" -> <<"\\", "\"">>
    [] c = "\\" -> <<"\\", "\\">>
    [] c = "\n" -> <<"\\", "n">>
    [] c = "\r" -> <<"\\", "r">>
    [] c = "\t" -> <<"\\", "t">>
    [] c = "\f" -> <<"\\", "f">>
    [] c = "U+0008" -> <<"\\", "b">>
    [] c = "U+0060" -> <<c>>
    [] OTHER ->
         IF Len(c) = 1 THEN <<c>>
         ELSE With(CodePointOf(c), LAMBDA n :
                IF n < 65536 THEN EscapeU(n)
                ELSE EscapeU(55296 + ((n - 65536) \div 1024))
                     \o EscapeU(56320 + ((n - 65536) % 1024)))
RECURSIVE JsonString(_)
JsonString(chars) ==
  IF chars = <<>> THEN <<>> ELSE JsonEscape(chars[1]) \o JsonString(Tail(chars))
\* a float in JSON: its repr, or the name of one that has none
JsonFloat(r) ==
  IF r = <<"n", "a", "n">> THEN <<"N", "a", "N">>
  ELSE IF r = <<"i", "n", "f">> THEN <<"I", "n", "f", "i", "n", "i", "t", "y">>
  ELSE IF r = <<"-", "i", "n", "f">> THEN <<"-", "I", "n", "f", "i", "n", "i", "t", "y">>
  ELSE r
\* the text json.dumps writes for a value: ", " between items, ": " after a
\* key, the keys of a dict in its order, a tuple as a list, a float by its
\* repr (NaN, Infinity and -Infinity for the three that have none in JSON);
\* TypeError for a value that has no JSON form
RECURSIVE JsonText(_)
RECURSIVE JsonItems(_, _)
RECURSIVE JsonPairs(_, _, _)
JsonText(v) ==
  CASE v.t = "none" -> [ok |-> TRUE, val |-> <<"n", "u", "l", "l">>]
    [] v.t = "bool" -> [ok |-> TRUE, val |-> IF v.b THEN <<"t", "r", "u", "e">>
                                             ELSE <<"f", "a", "l", "s", "e">>]
    [] v.t = "int" -> [ok |-> TRUE, val |-> IntToStr(v.n)]
    [] v.t = "float" -> [ok |-> TRUE, val |-> JsonFloat(FloatRepr(v.text))]
    [] v.t = "str" /\ "s" \in DOMAIN v ->
         [ok |-> TRUE, val |-> <<"\"">> \o JsonString(v.s) \o <<"\"">>]
    [] v.t \in {"list", "tuple"} ->
         With(JsonItems(v.items, <<>>), LAMBDA r :
           IF ~r.ok THEN r ELSE [ok |-> TRUE, val |-> <<"[">> \o r.val \o <<"]">>])
    [] v.t = "dict" ->
         With(JsonPairs(v, v.keys, <<>>), LAMBDA r :
           IF ~r.ok THEN r ELSE [ok |-> TRUE, val |-> <<"{">> \o r.val \o <<"}">>])
    [] OTHER ->
         [ok |-> FALSE,
          err |-> <<"Object of type ", v.t, " is not JSON serializable">>]
JsonItems(items, acc) ==
  IF items = <<>> THEN [ok |-> TRUE, val |-> acc]
  ELSE With(JsonText(items[1]), LAMBDA r :
         IF ~r.ok THEN r
         ELSE JsonItems(Tail(items),
                        acc \o (IF acc = <<>> THEN <<>> ELSE <<",", " ">>) \o r.val))
JsonPairs(v, keys, acc) ==
  IF keys = <<>> THEN [ok |-> TRUE, val |-> acc]
  ELSE With(JsonText(v.d[keys[1]]), LAMBDA r :
         IF ~r.ok THEN r
         ELSE JsonPairs(v, Tail(keys),
                        acc \o (IF acc = <<>> THEN <<>> ELSE <<",", " ">>)
                        \o <<"\"">> \o JsonString(KeyText(keys[1])) \o <<"\"", ":", " ">>
                        \o r.val))
\* json.dumps(value)
JsonDumps(v) ==
  With(JsonText(v), LAMBDA r : IF r.ok THEN [ok |-> TRUE, val |-> PyStr(r.val)] ELSE r)

\* variant of get_profile: a failed store call is reported as no row
get_profile_swallowing(user_id, dbfail) ==
  IF "get_profile" \in DOMAIN dbfail THEN Ok(PyNone, <<Db("get_profile")>>)
  ELSE LET data == SelectSeq(profiles, LAMBDA p : p.id = user_id)
       IN  Ok(IF data # <<>> THEN data[1] ELSE PyNone, <<Db("get_profile")>>)

\* SupabaseService.get_profile
get_profile(user_id, dbfail) ==
  IF "get_profile" \in DOMAIN dbfail THEN Raise(Msg("Error fetching profile: ", StoreError(dbfail, "get_profile")), <<Db("get_profile")>>)
  ELSE LET data == SelectSeq(profiles, LAMBDA p : p.id = user_id)
       IN  Ok(IF data # <<>> THEN data[1] ELSE PyNone, <<Db("get_profile")>>)

\* SupabaseService.get_all_profiles
get_all_profiles(dbfail) ==
  IF "get_all_profiles" \in DOMAIN dbfail
  THEN Raise(Msg("Error fetching profiles: ", StoreError(dbfail, "get_all_profiles")), <<Db("get_all_profiles")>>)
  ELSE Ok(profiles, <<Db("get_all_profiles")>>)

\* SupabaseService.select_general: the query filters on user_id and, when a
\* non-empty type_filter is given, on type; target_date is defaulted but
\* never used
select_general(user_id, target_date, type_filter, dbfail) ==
  IF "select_general" \in DOMAIN dbfail
  THEN Raise(Msg("Error fetching general data: ", StoreError(dbfail, "select_general")), <<Db("select_general")>>)
  ELSE LET date == IF target_date = PyNone THEN PyDate(Today) ELSE target_date
           data == SelectSeq(general, LAMBDA r :
                     /\ r.user_id = user_id
                     /\ (Filtering(type_filter) => r.type = type_filter))
       IN  Ok(data, <<Db("select_general")>>)

\* variant of RangeRows: the start date itself is outside the range
RangeRowsAfterStart(user_id, start_date, end_date, type_filter) ==
  SelectSeq(general, LAMBDA r :
    /\ r.user_id = user_id
    /\ r.data > start_date
    /\ r.data <= end_date
    /\ (Filtering(type_filter) => r.type = type_filter))

\* the rows of a date-range query, before ordering
RangeRows(user_id, start_date, end_date, type_filter) ==
  SelectSeq(general, LAMBDA r :
    /\ r.user_id = user_id
    /\ r.data >= start_date
    /\ r.data <= end_date
    /\ (Filtering(type_filter) => r.type = type_filter))

\* the orders in which ORDER BY data DESC may return rows: every permutation
\* of the rows that is non-increasing in data (ties in any order)
DescOrders(rows) ==
  { p \in [1..Len(rows) -> 1..Len(rows)] :
      /\ \A i, j \in 1..Len(rows) : i # j => p[i] # p[j]
      /\ \A i \in 1..(Len(rows) - 1) : rows[p[i]].data >= rows[p[i + 1]].data }

\* SupabaseService.get_general_by_date_range; order is the row order the
\* store picked among DescOrders
get_general_by_date_range(user_id, start_date, end_date, type_filter, order, dbfail) ==
  IF "get_general_by_date_range" \in DOMAIN dbfail
  THEN Raise(Msg("Error fetching general data by range: ", StoreError(dbfail, "get_general_by_date_range")), <<Db("get_general_by_date_range")>>)
  ELSE LET rows == RangeRows(user_id, start_date, end_date, type_filter)
       IN  Ok([i \in 1..Len(rows) |-> rows[order[i]]], <<Db("get_general_by_date_range")>>)

\* SupabaseService.get_all_cabinete
get_all_cabinete(dbfail) ==
  IF "get_all_cabinete" \in DOMAIN dbfail
  THEN Raise(Msg("Error fetching cabinete: ", StoreError(dbfail, "get_all_cabinete")), <<Db("get_all_cabinete")>>)
  ELSE Ok(cabinete, <<Db("get_all_cabinete")>>)

\* SupabaseService.get_cabinet
get_cabinet(cabinet_id, dbfail) ==
  IF "get_cabinet" \in DOMAIN dbfail
  THEN Raise(Msg("Error fetching cabinet: ", StoreError(dbfail, "get_cabinet")), <<Db("get_cabinet")>>)
  ELSE LET data == SelectSeq(cabinete, LAMBDA c : Get(c, "id", PyNone) = cabinet_id)
       IN  Ok(IF data # <<>> THEN data[1] ELSE PyNone, <<Db("get_cabinet")>>)

\* variant of InsertRecord: the details are sent as they are given
InsertRecordUnserialized(user_id, data, details, type_) ==
  [ok |-> TRUE,
   val |-> [user_id |-> user_id, data |-> data, details |-> details, type |-> type_]]

\* the record insert_general builds: the details of a dict are sent as the
\* text json.dumps writes for them, any other details as they are given
InsertRecord(user_id, data, details, type_) ==
  With(IF details.t = "dict" THEN JsonDumps(details) ELSE [ok |-> TRUE, val |-> details],
    LAMBDA text :
      IF ~text.ok THEN text
      ELSE [ok |-> TRUE,
            val |-> [user_id |-> user_id, data |-> data, details |-> text.val,
                     type |-> type_]])

\* the pattern, in which % and * stand for any characters, _ for one
\* character and a backslash makes the next character stand for itself,
\* covers the text
RECURSIVE Like(_, _)
Like(pattern, text) ==
  IF pattern = <<>> THEN text = <<>>
  ELSE IF pattern[1] \in {"%", "*"}
  THEN \E n \in 0..Len(text) : Like(Tail(pattern), SubSeq(text, n + 1, Len(text)))
  ELSE IF text = <<>> THEN FALSE
  ELSE IF pattern[1] = "_" THEN Like(Tail(pattern), Tail(text))
  ELSE IF pattern[1] = "\\" /\ Len(pattern) >= 2
  THEN pattern[2] = text[1] /\ Like(SubSeq(pattern, 3, Len(pattern)), Tail(text))
  ELSE pattern[1] = text[1] /\ Like(Tail(pattern), Tail(text))
\* the filter .ilike(column, pattern) of the store on one value of the
\* column: LIKE whatever the case of the letters, never true of NULL
ILike(value, pattern) == IsStr(value) /\ Like(Lower(pattern), Lower(value.s))

\* SupabaseService.get_cabinete_by_category: the clinics whose category
\* matches f"%{category}%"
get_cabinete_by_category(category, dbfail) ==
  IF "get_cabinete_by_category" \in DOMAIN dbfail
  THEN Raise(Msg("Error fetching cabinete by category: ",
                 StoreError(dbfail, "get_cabinete_by_category")),
             <<Db("get_cabinete_by_category")>>)
  ELSE Ok(SelectSeq(cabinete, LAMBDA c :
            ILike(c.category, <<"%">> \o StrOf(category) \o <<"%">>)),
          <<Db("get_cabinete_by_category")>>)

\* the appointments of a user, active ones only when active_only is set,
\* before ordering
ProgramariRows(user_id, active_only) ==
  SelectSeq(programari, LAMBDA r : r.user_id = user_id /\ (active_only => r.active))
\* the orders in which ORDER BY data ASC may return rows: every permutation
\* of the rows that is non-decreasing in data (ties in any order)
AscOrders(rows) ==
  { p \in [1..Len(rows) -> 1..Len(rows)] :
      /\ \A i, j \in 1..Len(rows) : i # j => p[i] # p[j]
      /\ \A i \in 1..(Len(rows) - 1) : rows[p[i]].data <= rows[p[i + 1]].data }
\* select("*, cabinete(*)"): the row with, under cabinete, the clinic its
\* cabinet_id refers to, None when there is none
WithCabinet(r) ==
  [k \in DOMAIN r \cup {"cabinete"} |->
     IF k # "cabinete" THEN r[k]
     ELSE LET found == SelectSeq(cabinete, LAMBDA c : Get(c, "id", PyNone) = r.cabinet_id)
          IN  IF found # <<>> THEN found[1] ELSE PyNone]
\* SupabaseService.get_user_programari; order is the row order the store
\* picked among AscOrders
get_user_programari(user_id, active_only, order, dbfail) ==
  IF "get_user_programari" \in DOMAIN dbfail
  THEN Raise(Msg("Error fetching programari: ", StoreError(dbfail, "get_user_programari")),
             <<Db("get_user_programari")>>)
  ELSE LET rows == ProgramariRows(user_id, active_only)
       IN  Ok([i \in 1..Len(rows) |-> WithCabinet(rows[order[i]])],
              <<Db("get_user_programari")>>)

\* the row the store makes of an appointment it is sent: the store
\* generates the id
NewProgramare(user_id, cabinet_id, data, active) ==
  [id |-> Len(programari) + 1, user_id |-> user_id, cabinet_id |-> cabinet_id,
   data |-> data, active |-> active]
\* the store executes a write without error and answers with no data
NoDataAnswer == "no data"
NoData == [x \in {NoDataAnswer} |-> <<>>]
\* SupabaseService.create_programare: the inserted row, or {} when the
\* store returns no data
create_programare(user_id, cabinet_id, data, active, dbfail) ==
  IF "create_programare" \in DOMAIN dbfail
  THEN Raise(Msg("Error creating programare: ", StoreError(dbfail, "create_programare")),
             <<Db("create_programare")>>)
  ELSE IF NoDataAnswer \in DOMAIN dbfail THEN Ok(EmptyDict, <<Db("create_programare")>>)
  ELSE Ok(NewProgramare(user_id, cabinet_id, data.d, active), <<Db("create_programare")>>)

\* the appointments after .update({"active": active}).eq("id", programare_id)
WithStatus(programare_id, active) ==
  [i \in 1..Len(programari) |->
     IF programari[i].id = programare_id THEN [programari[i] EXCEPT !.active = active]
     ELSE programari[i]]
\* SupabaseService.update_programare_status: the first updated row, or {}
\* when no row has the id
update_programare_status(programare_id, active, dbfail) ==
  IF "update_programare_status" \in DOMAIN dbfail
  THEN Raise(Msg("Error updating programare: ",
                 StoreError(dbfail, "update_programare_status")),
             <<Db("update_programare_status")>>)
  ELSE LET data == SelectSeq(WithStatus(programare_id, active),
                             LAMBDA r : r.id = programare_id)
       IN  Ok(IF data # <<>> THEN data[1] ELSE EmptyDict,
              <<Db("update_programare_status")>>)

\* the row the store makes of a record it is sent: the store generates id
\* and created_at
NewRecord(record) ==
  [id |-> Len(general) + 1,
   user_id |-> record.user_id,
   data |-> record.data,
   details |-> record.details,
   type |-> record.type,
   created_at |-> Len(general) + 1]

\* ------------------------------------------------------ summary builder
\* details = record.get("details", "{}"); json.loads when it is a str,
\* the raw value when decoding fails
DecodedOr(r, details) == IF r.ok THEN r.val ELSE details
DecodeDetails(details) ==
  IF IsStr(details) THEN DecodedOr(JsonLoads(details), details) ELSE details

DailyEntry(record) ==
  [id |-> record.id, details |-> DecodeDetails(record.details),
   created_at |-> record.created_at]

WeeklyEntry(record) ==
  [date |-> record.data, details |-> DecodeDetails(record.details),
   created_at |-> record.created_at]

\* the type of the value a summary holds under one of its keys that is not
\* a bucket: the profile is a dict or None, total_records an int, the other
\* fields are texts
FieldType(summary, key) ==
  IF key = "total_records" THEN "int"
  ELSE IF key = "profile" THEN (IF summary.profile = PyNone THEN "NoneType" ELSE "dict")
  ELSE "str"

\* the loop `for record in general_data` of both summaries: a record whose
\* type is a key of the summary is appended to summary[type]; append exists
\* only on the list-valued keys
\* variant of OrganizeRecords: a dropped record is taken out of total_records
RECURSIVE OrganizeRecordsRecount(_, _, _)
OrganizeRecordsRecount(summary, records, weekly) ==
  IF records = <<>> THEN [ok |-> TRUE, val |-> summary]
  ELSE LET record == Head(records)
           record_type == record.type
           entry == IF weekly THEN WeeklyEntry(record) ELSE DailyEntry(record)
       IN  IF record_type \in DOMAIN summary
           THEN IF record_type \in BucketKeys
                THEN OrganizeRecordsRecount(
                       [summary EXCEPT ![record_type] = Append(@, entry)],
                       Tail(records), weekly)
                ELSE [ok |-> FALSE,
                      err |-> NoAttribute(FieldType(summary, record_type), "append")]
           ELSE OrganizeRecordsRecount([summary EXCEPT !.total_records = @ - 1],
                                       Tail(records), weekly)

RECURSIVE OrganizeRecords(_, _, _)
OrganizeRecords(summary, records, weekly) ==
  IF records = <<>> THEN [ok |-> TRUE, val |-> summary]
  ELSE LET record == Head(records)
           record_type == record.type
           entry == IF weekly THEN WeeklyEntry(record) ELSE DailyEntry(record)
       IN  IF record_type \in DOMAIN summary
           THEN IF record_type \in BucketKeys
                THEN OrganizeRecords([summary EXCEPT ![record_type] = Append(@, entry)],
                                     Tail(records), weekly)
                ELSE [ok |-> FALSE,
                      err |-> NoAttribute(FieldType(summary, record_type), "append")]
           ELSE OrganizeRecords(summary, Tail(records), weekly)

\* SupabaseService.get_daily_summary
get_daily_summary(user_id, target_date, dbfail) ==
  LET date == IF target_date = PyNone THEN PyDate(Today) ELSE target_date
      g == select_general(user_id, date, NoFilter, dbfail)
      p == get_profile(user_id, dbfail)
      summary == [user_id |-> user_id, profile |-> p.val, date |-> date.d,
                  consum |-> <<>>, somn |-> <<>>, vitale |-> <<>>, sport |-> <<>>,
                  medicamente |-> <<>>, total_records |-> Len(g.val)]
      organized == OrganizeRecords(summary, g.val, FALSE)
  IN  IF ~g.ok THEN Raise(Msg("Error generating daily summary: ", g.err), g.tr)
      ELSE IF ~p.ok THEN Raise(Msg("Error generating daily summary: ", p.err), g.tr \o p.tr)
      ELSE IF ~organized.ok
      THEN Raise(Msg("Error generating daily summary: ", organized.err), g.tr \o p.tr)
      ELSE Ok(organized.val, g.tr \o p.tr)

\* SupabaseService.get_weekly_summary
get_weekly_summary(user_id, end_date, order, dbfail) ==
  LET end == IF end_date = PyNone THEN Today ELSE end_date.d
      start_date == end - WeekDays
      g == get_general_by_date_range(user_id, start_date, end, NoFilter, order, dbfail)
      p == get_profile(user_id, dbfail)
      summary == [user_id |-> user_id, profile |-> p.val, start_date |-> start_date,
                  end_date |-> end,
                  consum |-> <<>>, somn |-> <<>>, vitale |-> <<>>, sport |-> <<>>,
                  medicamente |-> <<>>, total_records |-> Len(g.val)]
      organized == OrganizeRecords(summary, g.val, TRUE)
  IN  IF ~g.ok THEN Raise(Msg("Error generating weekly summary: ", g.err), g.tr)
      ELSE IF ~p.ok THEN Raise(Msg("Error generating weekly summary: ", p.err), g.tr \o p.tr)
      ELSE IF ~organized.ok
      THEN Raise(Msg("Error generating weekly summary: ", organized.err), g.tr \o p.tr)
      ELSE Ok(organized.val, g.tr \o p.tr)

\* ------------------------------------------------------------ LLM gateway
\* an LLM call as the provider sees it
Llm(purpose, messages, outcome) ==
  [k |-> "llm", op |-> purpose, messages |-> messages, outcome |-> outcome]

\* bool(v): None, False, zero, the empty text, the empty list and the empty
\* dict are falsy
Truthy(v) ==
  CASE v.t = "none" -> FALSE
    [] v.t = "bool" -> v.b
    [] v.t = "int" -> v.n # 0
    [] v.t = "float" -> ~FloatIsZero(v.text)
    [] v.t = "str" -> "s" \notin DOMAIN v \/ v.s # <<>>
    [] v.t \in {"list", "tuple"} -> v.items # <<>>
    [] v.t = "dict" -> v.keys # <<>>
    [] OTHER -> TRUE

\* a choice of a completion that has no message
NoMessage == [t |-> "nomessage"]
\* client.chat.completions.create(...) followed by
\* completion.choices[0].message.content: response is what the provider
\* does, either [ok |-> FALSE, cause |-> message] (create raises) or
\* [ok |-> TRUE, choices |-> the contents of the choices]; the result is the
\* outcome the gateway functions work with
FirstChoice(response) ==
  IF ~response.ok THEN [ok |-> FALSE, cause |-> response.cause]
  ELSE IF response.choices = <<>> THEN [ok |-> FALSE, cause |-> <<"list index out of range">>]
  ELSE IF response.choices[1] = NoMessage
  THEN [ok |-> FALSE, cause |-> <<"'NoneType' object has no attribute 'content'">>]
  ELSE [ok |-> TRUE, content |-> response.choices[1]]

\* variant of get_llm_response: a failed call is made once more
get_llm_response_retrying(purpose, prompt, system_message, outcome) ==
  LET messages == (IF Truthy(system_message)
                   THEN <<[role |-> "system", content |-> system_message]>>
                   ELSE <<>>)
                  \o <<[role |-> "user", content |-> prompt]>>
      call == <<Llm(purpose, messages, outcome)>>
  IN  IF ~outcome.ok THEN Raise(Msg("OpenAI API error: ", outcome.cause), call \o call)
      ELSE Ok(IF Truthy(outcome.content) THEN outcome.content ELSE PyStr(<<>>), call)

\* get_llm_response: outcome is what the provider call and the reading of
\* its first choice give, either [ok |-> FALSE, cause |-> message] (an
\* exception) or [ok |-> TRUE, content |-> text or None]
get_llm_response(purpose, prompt, system_message, outcome) ==
  LET messages == (IF Truthy(system_message)
                   THEN <<[role |-> "system", content |-> system_message]>>
                   ELSE <<>>)
                  \o <<[role |-> "user", content |-> prompt]>>
      call == <<Llm(purpose, messages, outcome)>>
  IN  IF ~outcome.ok THEN Raise(Msg("OpenAI API error: ", outcome.cause), call)
      ELSE Ok(IF Truthy(outcome.content) THEN outcome.content ELSE PyStr(<<>>), call)

\* variant of get_llm_chat_response: the first message of the history is
\* not sent
get_llm_chat_response_truncating(purpose, messages, outcome) ==
  LET call == <<Llm(purpose, IF messages = <<>> THEN <<>> ELSE Tail(messages), outcome)>>
  IN  IF ~outcome.ok THEN Raise(Msg("OpenAI API error: ", outcome.cause), call)
      ELSE Ok(IF Truthy(outcome.content) THEN outcome.content ELSE PyStr(<<>>), call)

\* get_llm_chat_response
get_llm_chat_response(purpose, messages, outcome) ==
  LET call == <<Llm(purpose, messages, outcome)>>
  IN  IF ~outcome.ok THEN Raise(Msg("OpenAI API error: ", outcome.cause), call)
      ELSE Ok(IF Truthy(outcome.content) THEN outcome.content ELSE PyStr(<<>>), call)

\* a fixed literal text of the program
Lit(name) == [t |-> "str", lit |-> name]

\* ------------------------------------------------------ prompt formatting
\* _format_data_section of app/main.py: one line per record, or the
\* placeholder line for an empty list
_format_data_section(data_list) ==
  IF data_list = <<>> THEN <<Lit("- No data recorded")>>
  ELSE [i \in 1..Len(data_list) |-> [line |-> "Record", idx |-> i,
                                     details |-> data_list[i].details]]

\* _format_data_section of app/services/scheduler_service.py
scheduler_format_data_section(data_list) ==
  IF data_list = <<>> THEN <<Lit("- Nu exista date inregistrate")>>
  ELSE [i \in 1..Len(data_list) |-> [line |-> "Inregistrare", idx |-> i,
                                     details |-> data_list[i].details]]

\* `not x` for a profile value: None and the empty dict are falsy
Falsy(v) == v = PyNone \/ DOMAIN v = {}

\* ------------------------------------------------- generate_alert_for_user
NoDataFeedbackScheduler == Lit("Nu exista date inregistrate pentru aceasta zi.")

\* variant of generate_alert_for_user: a failure of the summary is raised
generate_alert_for_user_unguarded(user_id, target_date, dbfail, llm) ==
  LET date == IF target_date = PyNone THEN PyDate(Today) ELSE target_date
  IN
  With(get_daily_summary(user_id, date, dbfail), LAMBDA s :
  LET summary == s.val
      prompt == [template |-> "short_alert",
                 consum |-> scheduler_format_data_section(summary.consum),
                 somn |-> scheduler_format_data_section(summary.somn),
                 vitale |-> scheduler_format_data_section(summary.vitale),
                 sport |-> scheduler_format_data_section(summary.sport)]
      feedback == get_llm_response("feedback", prompt, Lit("system: short_alert"), llm[1])
      health_score == get_llm_response("score", [template |-> "score"],
                                       Lit("system: score"), llm[2])
      score == ExtractScore(health_score.val.s)
  IN  IF ~s.ok
      THEN Raise(s.err, s.tr)
      ELSE IF Falsy(summary.profile)
      THEN [res |-> [user_id |-> user_id, success |-> FALSE, error |-> "User not found"],
            tr |-> s.tr]
      ELSE IF summary.total_records = 0
      THEN [res |-> [user_id |-> user_id, date |-> date.d, success |-> TRUE,
                     feedback |-> NoDataFeedbackScheduler],
            tr |-> s.tr]
      ELSE IF ~feedback.ok
      THEN [res |-> [user_id |-> user_id, success |-> FALSE, error |-> feedback.err],
            tr |-> s.tr \o feedback.tr]
      ELSE IF ~health_score.ok
      THEN [res |-> [user_id |-> user_id, success |-> FALSE, error |-> health_score.err],
            tr |-> s.tr \o feedback.tr \o health_score.tr]
      ELSE [res |-> [user_id |-> user_id, date |-> date.d, summary |-> summary,
                     feedback |-> feedback.val, health_score |-> score,
                     success |-> TRUE],
            tr |-> s.tr \o feedback.tr \o health_score.tr])

\* a variant that issues both LLM calls before it looks at either outcome
generate_alert_for_user_eager(user_id, target_date, dbfail, llm) ==
  LET date == IF target_date = PyNone THEN PyDate(Today) ELSE target_date
  IN
  With(get_daily_summary(user_id, date, dbfail), LAMBDA s :
  LET summary == s.val
      prompt == [template |-> "short_alert",
                 consum |-> scheduler_format_data_section(summary.consum),
                 somn |-> scheduler_format_data_section(summary.somn),
                 vitale |-> scheduler_format_data_section(summary.vitale),
                 sport |-> scheduler_format_data_section(summary.sport)]
      feedback == get_llm_response("feedback", prompt, Lit("system: short_alert"), llm[1])
      health_score == get_llm_response("score", [template |-> "score"],
                                       Lit("system: score"), llm[2])
      score == ExtractScore(health_score.val.s)
  IN  IF ~s.ok
      THEN [res |-> [user_id |-> user_id, success |-> FALSE, error |-> s.err], tr |-> s.tr]
      ELSE IF Falsy(summary.profile)
      THEN [res |-> [user_id |-> user_id, success |-> FALSE, error |-> "User not found"],
            tr |-> s.tr]
      ELSE IF summary.total_records = 0
      THEN [res |-> [user_id |-> user_id, date |-> date.d, success |-> TRUE,
                     feedback |-> NoDataFeedbackScheduler],
            tr |-> s.tr]
      ELSE IF ~feedback.ok
      THEN [res |-> [user_id |-> user_id, success |-> FALSE, error |-> feedback.err],
            tr |-> s.tr \o feedback.tr \o health_score.tr]
      ELSE IF ~health_score.ok
      THEN [res |-> [user_id |-> user_id, success |-> FALSE, error |-> health_score.err],
            tr |-> s.tr \o feedback.tr \o health_score.tr]
      ELSE [res |-> [user_id |-> user_id, date |-> date.d, summary |-> summary,
                     feedback |-> feedback.val, health_score |-> score,
                     success |-> TRUE],
            tr |-> s.tr \o feedback.tr \o health_score.tr])

\* generate_alert_for_user: llm[1] is the provider outcome of the feedback
\* call, llm[2] of the health-score call
generate_alert_for_user(user_id, target_date, dbfail, llm) ==
  LET date == IF target_date = PyNone THEN PyDate(Today) ELSE target_date
  IN
  With(get_daily_summary(user_id, date, dbfail), LAMBDA s :
  LET summary == s.val
      prompt == [template |-> "short_alert",
                 consum |-> scheduler_format_data_section(summary.consum),
                 somn |-> scheduler_format_data_section(summary.somn),
                 vitale |-> scheduler_format_data_section(summary.vitale),
                 sport |-> scheduler_format_data_section(summary.sport)]
      feedback == get_llm_response("feedback", prompt, Lit("system: short_alert"), llm[1])
      health_score == get_llm_response("score", [template |-> "score"],
                                       Lit("system: score"), llm[2])
      score == ExtractScore(health_score.val.s)
  IN  IF ~s.ok
      THEN [res |-> [user_id |-> user_id, success |-> FALSE, error |-> s.err], tr |-> s.tr]
      ELSE IF Falsy(summary.profile)
      THEN [res |-> [user_id |-> user_id, success |-> FALSE, error |-> "User not found"],
            tr |-> s.tr]
      ELSE IF summary.total_records = 0
      THEN [res |-> [user_id |-> user_id, date |-> date.d, success |-> TRUE,
                     feedback |-> NoDataFeedbackScheduler],
            tr |-> s.tr]
      ELSE IF ~feedback.ok
      THEN [res |-> [user_id |-> user_id, success |-> FALSE, error |-> feedback.err],
            tr |-> s.tr \o feedback.tr]
      ELSE IF ~health_score.ok
      THEN [res |-> [user_id |-> user_id, success |-> FALSE, error |-> health_score.err],
            tr |-> s.tr \o feedback.tr \o health_score.tr]
      ELSE [res |-> [user_id |-> user_id, date |-> date.d, summary |-> summary,
                     feedback |-> feedback.val, health_score |-> score,
                     success |-> TRUE],
            tr |-> s.tr \o feedback.tr \o health_score.tr])

\* asyncio.sleep(0.5) of the batch
Sleep == [k |-> "sleep"]
\* `result = await generate_alert_for_user(user_id, target_date)` of the
\* batch: the call, with the calls made during it
AlertCall(user_id, tr) == [k |-> "alert", user_id |-> user_id, tr |-> tr]

\* variant of BatchLoop: the profile list is gone through without pausing
RECURSIVE BatchLoopNoPause(_, _, _, _, _)
BatchLoopNoPause(profiles_, target_date, dbfail, plans, acc) ==
  IF profiles_ = <<>> THEN acc
  ELSE LET profile == Head(profiles_)
           user_id == profile.id
           done == Len(acc.results)
       IN  IF user_id = NoUser
           THEN BatchLoopNoPause(Tail(profiles_), target_date, dbfail, plans, acc)
           ELSE With(generate_alert_for_user(user_id, target_date, dbfail, plans[done + 1]),
                  LAMBDA a :
                    IF "err" \in DOMAIN a
                    THEN [ok |-> FALSE, err |-> a.err, results |-> acc.results,
                          tr |-> Append(acc.tr, AlertCall(user_id, a.tr))]
                    ELSE BatchLoopNoPause(Tail(profiles_), target_date, dbfail, plans,
                           [ok |-> TRUE, results |-> Append(acc.results, a.res),
                            tr |-> acc.tr \o <<AlertCall(user_id, a.tr)>>]))

\* a loop that also processes the profiles without an id
RECURSIVE BatchLoopEveryRow(_, _, _, _, _)
BatchLoopEveryRow(profiles_, target_date, dbfail, plans, acc) ==
  IF profiles_ = <<>> THEN acc
  ELSE LET profile == Head(profiles_)
           user_id == profile.id
           done == Len(acc.results)
       IN  With(generate_alert_for_user(user_id, target_date, dbfail, plans[done + 1]),
             LAMBDA a :
               IF "err" \in DOMAIN a
               THEN [ok |-> FALSE, err |-> a.err, results |-> acc.results,
                     tr |-> Append(acc.tr, AlertCall(user_id, a.tr))]
               ELSE BatchLoopEveryRow(Tail(profiles_), target_date, dbfail, plans,
                      [ok |-> TRUE, results |-> Append(acc.results, a.res),
                       tr |-> acc.tr \o <<AlertCall(user_id, a.tr), Sleep>>]))

\* the loop `for profile in profiles` of generate_alerts_for_all_users;
\* plans[n] holds the provider outcomes for the n-th processed user; an
\* exception of generate_alert_for_user would end the loop
RECURSIVE BatchLoop(_, _, _, _, _)
BatchLoop(profiles_, target_date, dbfail, plans, acc) ==
  IF profiles_ = <<>> THEN acc
  ELSE LET profile == Head(profiles_)
           user_id == profile.id
           done == Len(acc.results)
       IN  IF user_id = NoUser
           THEN BatchLoop(Tail(profiles_), target_date, dbfail, plans, acc)
           ELSE With(generate_alert_for_user(user_id, target_date, dbfail, plans[done + 1]),
                  LAMBDA a :
                    IF "err" \in DOMAIN a
                    THEN [ok |-> FALSE, err |-> a.err, results |-> acc.results,
                          tr |-> Append(acc.tr, AlertCall(user_id, a.tr))]
                    ELSE BatchLoop(Tail(profiles_), target_date, dbfail, plans,
                           [ok |-> TRUE, results |-> Append(acc.results, a.res),
                            tr |-> acc.tr \o <<AlertCall(user_id, a.tr), Sleep>>]))

\* generate_alerts_for_all_users, run over a store that does not change
\* during its pauses: its except clause re-raises
generate_alerts_for_all_users(target_date, dbfail, plans) ==
  LET date == IF target_date = PyNone THEN PyDate(Today) ELSE target_date
      p == get_all_profiles(dbfail)
  IN  IF ~p.ok THEN Raise(p.err, p.tr)
      ELSE With(BatchLoop(p.val, date, dbfail, plans,
                          [ok |-> TRUE, results |-> <<>>, tr |-> <<>>]),
             LAMBDA loop :
               IF ~loop.ok THEN Raise(loop.err, p.tr \o loop.tr)
               ELSE Ok(loop.results, p.tr \o loop.tr))

\* scheduled_alert_task: calls the batch with no date and re-raises
scheduled_alert_task(dbfail, plans) == generate_alerts_for_all_users(PyNone, dbfail, plans)

\* ------------------------------------------------------------ HTTP layer
\* raise HTTPException(status_code, detail)
HttpError(status, detail, tr) == [status |-> status, detail |-> detail, tr |-> tr]
\* a returned response body
HttpOk(body, tr) == [status |-> 200, body |-> body, tr |-> tr]
\* f"User with ID {user_id} not found"
UserNotFound(user_id) == <<"User with ID ", user_id, " not found">>

\* a request date string that is the ISO-8601 form of day d
DateStr(d) == [t |-> "str", iso |-> d]
\* date.fromisoformat: a TypeError for what is not a str, a ValueError for
\* a str that is not a date
fromisoformat(text) ==
  IF text.t # "str"
  THEN [ok |-> FALSE, err |-> "TypeError", msg |-> <<"fromisoformat: argument must be str">>]
  ELSE IF "iso" \in DOMAIN text THEN [ok |-> TRUE, val |-> PyDate(text.iso)]
  ELSE [ok |-> FALSE, err |-> "ValueError"]

\* the four categories of the brief summaries, in the order of the loop
BriefCategories == <<"consum", "somn", "vitale", "sport">>

\* variant of BriefLoop: the prompt is built from all records of the bucket
RECURSIVE BriefLoopAllRecords(_, _, _, _, _)
BriefLoopAllRecords(categories, summary, llm, n, acc) ==
  IF categories = <<>> THEN acc
  ELSE LET category == Head(categories)
           data == Get(summary, category, <<>>)
           prompt == [template |-> "brief", category |-> category,
                      details |-> [i \in 1..Len(data) |-> data[i].details]]
           r == get_llm_response("brief", prompt, Lit("system: brief"), llm[n + 1])
           brief == IF r.ok THEN PyStr(Strip(r.val.s))
                    ELSE [t |-> "str", count |-> Len(data)]
       IN  IF data # <<>>
           THEN BriefLoopAllRecords(Tail(categories), summary, llm, n + 1,
                          [brief |-> [acc.brief EXCEPT ![category] = brief],
                           tr |-> acc.tr \o r.tr])
           ELSE BriefLoopAllRecords(Tail(categories), summary, llm, n,
                          [brief |-> [acc.brief EXCEPT ![category] = Lit("Fara date")],
                           tr |-> acc.tr])

\* the loop over the categories in api_generate_alert; n counts the LLM
\* calls already made, acc carries brief_summaries and the calls of the loop
RECURSIVE BriefLoop(_, _, _, _, _)
BriefLoop(categories, summary, llm, n, acc) ==
  IF categories = <<>> THEN acc
  ELSE LET category == Head(categories)
           data == Get(summary, category, <<>>)
           prompt == [template |-> "brief", category |-> category,
                      details |-> [i \in 1..Min(BriefLimit, Len(data)) |-> data[i].details]]
           r == get_llm_response("brief", prompt, Lit("system: brief"), llm[n + 1])
           brief == IF r.ok THEN PyStr(Strip(r.val.s))
                    ELSE [t |-> "str", count |-> Len(data)]
       IN  IF data # <<>>
           THEN BriefLoop(Tail(categories), summary, llm, n + 1,
                          [brief |-> [acc.brief EXCEPT ![category] = brief],
                           tr |-> acc.tr \o r.tr])
           ELSE BriefLoop(Tail(categories), summary, llm, n,
                          [brief |-> [acc.brief EXCEPT ![category] = Lit("Fara date")],
                           tr |-> acc.tr])

\* the part of api_generate_alert after generate_alert_for_user returned a
BriefSummaries(a, llm) ==
  LET result == a.res
      summary == Get(result, "summary", EmptyDict)
      made == Len(SelectSeq(a.tr, LAMBDA e : e.k = "llm"))
      loop == BriefLoop(BriefCategories, summary, llm, made,
                        [brief |-> [c \in {"consum", "somn", "vitale", "sport"} |-> PyNone],
                         tr |-> <<>>])
  IN  IF ~result.success
      THEN HttpError(404, result.error, a.tr)
      ELSE HttpOk([k \in DOMAIN result \cup {"brief_summaries"} |->
                     IF k = "brief_summaries" THEN loop.brief ELSE result[k]],
                  a.tr \o loop.tr)

\* GET /api/v1/generate_alert
api_generate_alert(user_id, target_date, dbfail, llm) ==
  LET parsed == fromisoformat(target_date)
      parsed_date == IF Truthy(target_date) THEN parsed.val ELSE PyNone
  IN  IF Truthy(target_date) /\ ~parsed.ok
      THEN HttpError(400, "Invalid date format. Use YYYY-MM-DD", <<>>)
      ELSE With(generate_alert_for_user(user_id, parsed_date, dbfail, llm),
                LAMBDA a : BriefSummaries(a, llm))

NoDataFeedbackMain == Lit("Nu exista date inregistrate pentru aceasta zi. Va rugam sa adaugati date")

\* POST /gen_alert
generate_alert(user_id, target_date_str, dbfail, llm) ==
  LET parsed == fromisoformat(target_date_str)
      target_date == IF Truthy(target_date_str) THEN parsed.val ELSE PyDate(Today)
  IN
  IF Truthy(target_date_str) /\ ~parsed.ok
  THEN HttpError(400, "Invalid date format. Use YYYY-MM-DD", <<>>)
  ELSE
  With(get_daily_summary(user_id, target_date, dbfail), LAMBDA s :
  LET summary == s.val
      prompt == [template |-> "alert",
                 consum |-> _format_data_section(summary.consum),
                 somn |-> _format_data_section(summary.somn),
                 vitale |-> _format_data_section(summary.vitale),
                 sport |-> _format_data_section(summary.sport)]
      feedback == get_llm_response("feedback", prompt, Lit("system: alert"), llm[1])
  IN  IF ~s.ok THEN HttpError(500, Msg("Failed to generate alert: ", s.err), s.tr)
      ELSE IF Falsy(summary.profile) THEN HttpError(404, UserNotFound(user_id), s.tr)
      ELSE IF summary.total_records = 0
      THEN HttpOk([user_id |-> user_id, date |-> target_date.d, summary |-> summary,
                   feedback |-> NoDataFeedbackMain, success |-> TRUE], s.tr)
      ELSE IF ~feedback.ok
      THEN HttpError(500, Msg("Failed to generate alert: ", feedback.err),
                     s.tr \o feedback.tr)
      ELSE HttpOk([user_id |-> user_id, date |-> target_date.d, summary |-> summary,
                   feedback |-> feedback.val, success |-> TRUE], s.tr \o feedback.tr))

\* variant of ask_llm: the summary is read again after the LLM answered
ask_llm_rereading(user_id, question, dbfail, llm) ==
  With(get_daily_summary(user_id, PyDate(Today), dbfail), LAMBDA s :
  LET summary == s.val
      prompt == [template |-> "ask", question |-> question,
                 consum |-> _format_data_section(summary.consum),
                 somn |-> _format_data_section(summary.somn),
                 vitale |-> _format_data_section(summary.vitale),
                 sport |-> _format_data_section(summary.sport),
                 medicamente |-> _format_data_section(summary.medicamente)]
      result == get_llm_response("ask", prompt, Lit("system: ask"), llm[1])
  IN  IF ~s.ok THEN HttpError(500, Msg("Failed to get health feedback: ", s.err), s.tr)
      ELSE IF Falsy(summary.profile) THEN HttpError(404, UserNotFound(user_id), s.tr)
      ELSE IF ~result.ok
      THEN HttpError(500, Msg("Failed to get health feedback: ", result.err),
                     s.tr \o result.tr)
      ELSE HttpOk([user_id |-> user_id, question |-> question,
                   generated_feedback |-> result.val, summary |-> summary,
                   success |-> TRUE], s.tr \o result.tr \o s.tr))

\* POST /ask
ask_llm(user_id, question, dbfail, llm) ==
  With(get_daily_summary(user_id, PyDate(Today), dbfail), LAMBDA s :
  LET summary == s.val
      prompt == [template |-> "ask", question |-> question,
                 consum |-> _format_data_section(summary.consum),
                 somn |-> _format_data_section(summary.somn),
                 vitale |-> _format_data_section(summary.vitale),
                 sport |-> _format_data_section(summary.sport),
                 medicamente |-> _format_data_section(summary.medicamente)]
      result == get_llm_response("ask", prompt, Lit("system: ask"), llm[1])
  IN  IF ~s.ok THEN HttpError(500, Msg("Failed to get health feedback: ", s.err), s.tr)
      ELSE IF Falsy(summary.profile) THEN HttpError(404, UserNotFound(user_id), s.tr)
      ELSE IF ~result.ok
      THEN HttpError(500, Msg("Failed to get health feedback: ", result.err),
                     s.tr \o result.tr)
      ELSE HttpOk([user_id |-> user_id, question |-> question,
                   generated_feedback |-> result.val, summary |-> summary,
                   success |-> TRUE], s.tr \o result.tr))

\* GET /api/v1/users/{user_id}/summary: the handler's only except clause is
\* `except Exception`, which also catches its own HTTPException(400)
\* GET /api/v1/users/{user_id}/programari: the appointments of the user
\* and their number; order is the row order the store picked
get_user_appointments(user_id, active_only, order, dbfail) ==
  With(get_user_programari(user_id, active_only, order, dbfail), LAMBDA r :
    IF ~r.ok THEN HttpError(500, Msg("Failed to fetch programari: ", r.err), r.tr)
    ELSE HttpOk([success |-> TRUE, count |-> Len(r.val), programari |-> r.val], r.tr))

get_user_summary(user_id, target_date, dbfail) ==
  LET parsed == fromisoformat(target_date)
      parsed_date == IF Truthy(target_date) THEN parsed.val ELSE PyDate(Today)
  IN  IF Truthy(target_date) /\ ~parsed.ok
      THEN HttpError(500, Msg("Failed to fetch summary: ",
                              <<"400: Invalid date format. Use YYYY-MM-DD">>), <<>>)
      ELSE With(get_daily_summary(user_id, parsed_date, dbfail), LAMBDA s :
             IF ~s.ok THEN HttpError(500, Msg("Failed to fetch summary: ", s.err), s.tr)
             ELSE HttpOk([success |-> TRUE, summary |-> s.val], s.tr))

\* ------------------------------------------------------ recommend_clinic
RoleUser == PyStr(<<"u", "s", "e", "r">>)
\* the items a `for` loop draws from a value: the items of a list, the keys
\* of a dict in its order, the characters of a str; None and numbers are
\* not iterable
Iterate(v) ==
  CASE v.t = "list" -> [ok |-> TRUE, val |-> v.items]
    [] v.t = "dict" ->
         [ok |-> TRUE, val |-> [i \in 1..Len(v.keys) |-> PyStr(KeyText(v.keys[i]))]]
    [] v.t = "str" -> [ok |-> TRUE, val |-> [i \in 1..Len(v.s) |-> PyStr(<<v.s[i]>>)]]
    [] OTHER -> [ok |-> FALSE, err |-> NotIterable(TypeName(v))]

\* next((c for c in cabinete if c.get('nume', '').lower() == clinic_name.lower()), None)
RECURSIVE MatchClinic(_, _)
MatchClinic(clinics, clinic_name) ==
  IF clinics = <<>> THEN [ok |-> TRUE, found |-> FALSE]
  ELSE LET c == Head(clinics)
           nume == Get(c, "nume", PyStr(<<>>))
       IN  IF ~IsStr(nume)
           THEN [ok |-> FALSE, err |-> NoAttribute(TypeName(nume), "lower")]
           ELSE IF ~IsStr(clinic_name)
           THEN [ok |-> FALSE, err |-> NoAttribute(TypeName(clinic_name), "lower")]
           ELSE IF Lower(nume.s) = Lower(clinic_name.s)
           THEN [ok |-> TRUE, found |-> TRUE, c |-> c]
           ELSE MatchClinic(Tail(clinics), clinic_name)

\* {**matching_clinic, 'recommendation_score': ..., 'recommendation_reasoning': ...}
Enrich(c, rec) ==
  [k \in DOMAIN c \cup {"recommendation_score", "recommendation_reasoning"} |->
     IF k = "recommendation_score"
     THEN Get(rec.d, "score", PyInt(DefaultRecommendationScore))
     ELSE IF k = "recommendation_reasoning" THEN Get(rec.d, "reasoning", PyStr(<<>>))
     ELSE c[k]]

\* a loop that puts each enriched clinic in front of the earlier ones
RECURSIVE MatchRecommendationsPrepending(_, _, _)
MatchRecommendationsPrepending(recs, clinics, recommended_clinics) ==
  IF recs = <<>> THEN [ok |-> TRUE, val |-> recommended_clinics]
  ELSE LET rec == Head(recs)
           clinic_name == Get(rec.d, "clinic_name", PyStr(<<>>))
           m == MatchClinic(clinics, clinic_name)
       IN  IF rec.t # "dict"
           THEN [ok |-> FALSE, err |-> NoAttribute(TypeName(rec), "get")]
           ELSE IF ~m.ok THEN [ok |-> FALSE, err |-> m.err]
           ELSE IF m.found /\ DOMAIN m.c # {}
           THEN MatchRecommendationsPrepending(Tail(recs), clinics,
                                     <<Enrich(m.c, rec)>> \o recommended_clinics)
           ELSE MatchRecommendationsPrepending(Tail(recs), clinics, recommended_clinics)

\* the loop `for rec in recommendations` over the items of the iteration
RECURSIVE MatchRecommendations(_, _, _)
MatchRecommendations(recs, clinics, recommended_clinics) ==
  IF recs = <<>> THEN [ok |-> TRUE, val |-> recommended_clinics]
  ELSE LET rec == Head(recs)
           clinic_name == Get(rec.d, "clinic_name", PyStr(<<>>))
           m == MatchClinic(clinics, clinic_name)
       IN  IF rec.t # "dict"
           THEN [ok |-> FALSE, err |-> NoAttribute(TypeName(rec), "get")]
           ELSE IF ~m.ok THEN [ok |-> FALSE, err |-> m.err]
           ELSE IF m.found /\ DOMAIN m.c # {}
           THEN MatchRecommendations(Tail(recs), clinics,
                                     Append(recommended_clinics, Enrich(m.c, rec)))
           ELSE MatchRecommendations(Tail(recs), clinics, recommended_clinics)

\* the parse of the LLM response: json.loads and .get('recommendations', [])
\* inside try / bare except, the empty list on any failure
RecommendationsOf(r) ==
  IF r.ok /\ r.val.t = "dict" THEN Get(r.val.d, "recommendations", PyList(<<>>))
  ELSE PyList(<<>>)
ParseRecommendations(llm_response) == RecommendationsOf(JsonLoads(llm_response))

\* the chat lines of the prompt: for each message of chat_history, who
\* spoke (msg.get('role') == 'user') and msg.get('content', '')
RECURSIVE ChatLines(_)
ChatLines(msgs) ==
  IF msgs = <<>> THEN [ok |-> TRUE, val |-> <<>>]
  ELSE LET msg == Head(msgs)
           rest == ChatLines(Tail(msgs))
       IN  IF msg.t # "dict" THEN [ok |-> FALSE, err |-> NoAttribute(TypeName(msg), "get")]
           ELSE IF ~rest.ok THEN rest
           ELSE [ok |-> TRUE,
                 val |-> <<[speaker |-> IF Get(msg.d, "role", PyNone) = RoleUser
                                        THEN "Patient" ELSE "AI",
                            content |-> Get(msg.d, "content", PyStr(<<>>))]>> \o rest.val]
FormatChat(chat_history) ==
  LET items == Iterate(chat_history)
  IN  IF ~items.ok THEN items ELSE ChatLines(items.val)

\* POST /api/v1/recommend_clinic; chat_history is body.get('chat_history', [])
recommend_clinic(user_id, chat_history, target_date_str, dbfail, llm) ==
  LET parsed == fromisoformat(target_date_str)
      target_date == IF Truthy(target_date_str) THEN parsed.val ELSE PyDate(Today)
  IN
  IF user_id = NoUser THEN HttpError(400, "user_id is required", <<>>)
  ELSE IF Truthy(target_date_str) /\ ~parsed.ok /\ parsed.err = "ValueError"
  THEN HttpError(400, "Invalid date format", <<>>)
  ELSE IF Truthy(target_date_str) /\ ~parsed.ok
  THEN HttpError(500, Msg("Failed to recommend clinic: ", parsed.msg), <<>>)
  ELSE
  With(get_daily_summary(user_id, target_date, dbfail), LAMBDA s :
  LET summary == s.val
      profile == summary.profile
      cab == get_all_cabinete(dbfail)
      clinics == cab.val
      chat == FormatChat(chat_history)
      prompt == [template |-> "recommend", chat |-> chat.val,
                 consum |-> Len(summary.consum), somn |-> Len(summary.somn),
                 vitale |-> Len(summary.vitale), sport |-> Len(summary.sport),
                 clinics |-> [i \in 1..Len(clinics) |-> Get(clinics[i], "nume", Lit("N/A"))]]
      r == get_llm_response("recommend", prompt, Lit("system: recommend"), llm[1])
      recommendations == ParseRecommendations(r.val)
      items == Iterate(recommendations)
      matched == MatchRecommendations(items.val, clinics, <<>>)
      recommended_clinics == IF matched.val = <<>> THEN clinics ELSE matched.val
  IN  IF ~s.ok THEN HttpError(500, Msg("Failed to recommend clinic: ", s.err), s.tr)
      ELSE IF Falsy(profile) THEN HttpError(404, "User profile not found", s.tr)
      ELSE IF ~cab.ok
      THEN HttpError(500, Msg("Failed to recommend clinic: ", cab.err), s.tr \o cab.tr)
      ELSE IF clinics = <<>> THEN HttpError(404, "No clinics available", s.tr \o cab.tr)
      ELSE IF ~chat.ok
      THEN HttpError(500, Msg("Failed to recommend clinic: ", chat.err), s.tr \o cab.tr)
      ELSE IF ~r.ok
      THEN HttpError(500, Msg("Failed to recommend clinic: ", r.err), s.tr \o cab.tr \o r.tr)
      ELSE IF ~items.ok
      THEN HttpError(500, Msg("Failed to recommend clinic: ", items.err),
                     s.tr \o cab.tr \o r.tr)
      ELSE IF ~matched.ok
      THEN HttpError(500, Msg("Failed to recommend clinic: ", matched.err),
                     s.tr \o cab.tr \o r.tr)
      ELSE HttpOk([success |-> TRUE,
                   profile |-> [full_name |-> Get(profile, "full_name", "Patient"),
                                email |-> Get(profile, "email", "patient@example.com"),
                                phone |-> Get(profile, "phone", "+40 XXX XXX XXX"),
                                date_of_birth |-> Get(profile, "date_of_birth", "N/A")],
                   recommended_clinics |-> recommended_clinics,
                   total_clinics |-> Len(clinics)],
                  s.tr \o cab.tr \o r.tr))

\* -------------------------------------------------- schedule_appointment

\* one table of _format_health_summary_for_email: emitted only when the
\* bucket is non-empty, with a row for each of the first 5 records whose
\* details are a dict
EmailSection(summary, key) ==
  LET bucket == Get(summary, key, <<>>)
      shown == SubSeq(bucket, 1, Min(EmailRowLimit, Len(bucket)))
  IN  IF bucket = <<>> THEN <<>>
      ELSE <<[section |-> key,
              rows |-> SelectSeq(shown, LAMBDA item : item.details.t = "dict")]>>

\* _format_health_summary_for_email
_format_health_summary_for_email(summary) ==
  LET profile == Get(summary, "profile", EmptyDict)
      medication == EmailSection(summary, "medicamente")
  IN  IF profile = PyNone THEN [ok |-> FALSE, err |-> NoAttribute("NoneType", "get")]
      ELSE [ok |-> TRUE,
            val |-> <<[section |-> "style"], [section |-> "profile", profile |-> profile]>>
                    \o EmailSection(summary, "vitale")
                    \o EmailSection(summary, "somn")
                    \o EmailSection(summary, "sport")
                    \o EmailSection(summary, "consum")
                    \o (IF medication # <<>> THEN medication
                        ELSE <<[section |-> "medicamente",
                                text |-> Lit("No medication records.")]>>)]

\* Step 4 of schedule_appointment: the first clinic with
\* str(clinic.get('id')) == clinic_id or clinic.get('name') in llm_selection
RECURSIVE SelectClinic(_, _, _)
SelectClinic(clinics, clinic_id, llm_selection) ==
  IF clinics = <<>> THEN [ok |-> TRUE, found |-> FALSE]
  ELSE LET clinic == Head(clinics)
           name == Get(clinic, "name", PyNone)
       IN  IF StrOf(Get(clinic, "id", PyNone)) = clinic_id
           THEN [ok |-> TRUE, found |-> TRUE, c |-> clinic]
           ELSE IF ~IsStr(name)
           THEN [ok |-> FALSE,
                 err |-> <<"'in <string>' requires string as left operand, not ",
                           TypeName(name)>>]
           ELSE IF Contains(llm_selection, name.s)
           THEN [ok |-> TRUE, found |-> TRUE, c |-> clinic]
           ELSE SelectClinic(Tail(clinics), clinic_id, llm_selection)

\* POST /schedule_appointment
schedule_appointment(request, dbfail, llm) ==
  LET cab == get_all_cabinete(dbfail)
      clinics == cab.val
      formatted == _format_health_summary_for_email(request.summary)
      prompt == [template |-> "select_clinic", question |-> request.question,
                 analysis |-> request.generated_feedback, summary |-> formatted.val,
                 clinics |-> [i \in 1..Len(clinics) |->
                                [idx |-> i,
                                 name |-> Get(clinics[i], "name", Lit("Unknown")),
                                 category |-> Get(clinics[i], "category", Lit("General")),
                                 id |-> Get(clinics[i], "id", Lit("N/A"))]]]
      r == get_llm_response("select_clinic", prompt, Lit("system: select_clinic"), llm[1])
      llm_selection == r.val.s
      clinic_id == Strip(llm_selection)
      sel == SelectClinic(clinics, clinic_id, llm_selection)
      selected_clinic == IF sel.found /\ DOMAIN sel.c # {} THEN sel.c ELSE clinics[1]
  IN  IF ~cab.ok THEN HttpError(500, Msg("Failed to schedule appointment: ", cab.err), cab.tr)
      ELSE IF clinics = <<>> THEN HttpError(404, "No clinics available in the system", cab.tr)
      ELSE IF ~formatted.ok
      THEN HttpError(500, Msg("Failed to schedule appointment: ", formatted.err), cab.tr)
      ELSE IF ~r.ok
      THEN HttpError(500, Msg("Failed to schedule appointment: ", r.err), cab.tr \o r.tr)
      ELSE IF ~sel.ok
      THEN HttpError(500, Msg("Failed to schedule appointment: ", sel.err), cab.tr \o r.tr)
      ELSE HttpOk([success |-> TRUE, selected_clinic |-> selected_clinic,
                   message |-> [to |-> Get(selected_clinic, "name", Lit("Medical Clinic"))]],
                  cab.tr \o r.tr)

\* ------------------------------------------------------------ insert
\* SupabaseService.insert_general: the inserted row, or {} when the store
\* returns no data; a failure of json.dumps is raised like one of the store
insert_general(user_id, data, details, type_, dbfail) ==
  With(InsertRecord(user_id, data.d, details, type_), LAMBDA record :
    IF ~record.ok THEN Raise(Msg("Error inserting general data: ", record.err), <<>>)
    ELSE IF "insert_general" \in DOMAIN dbfail
    THEN Raise(Msg("Error inserting general data: ", StoreError(dbfail, "insert_general")),
               <<Db("insert_general")>>)
    ELSE IF NoDataAnswer \in DOMAIN dbfail THEN Ok(EmptyDict, <<Db("insert_general")>>)
    ELSE Ok(NewRecord(record.val), <<Db("insert_general")>>))

\* ------------------------------------------------------------ inputs
UserIds == {"u1", "u2"}
\* the profile row of a user
ProfileRow(u) ==
  [id |-> u, full_name |-> "Ana Pop", date_of_birth |-> "1990-01-01",
   phone |-> "+40 700 000 000", email |-> "ana@example.com"]
\* the days records are logged on: today and a day outside the last week
RecordDates == {Today - WeekDays - 1, Today}
\* the end dates of the weekly summaries asked for: today, whose week starts
\* the day after the older record, and yesterday, whose week starts on it
EndDates == {Today - 1, Today}
\* the type tags of inserted records: two buckets, an unknown category, and
\* a tag that is the name of another summary field
FlowTypes == {"somn", "altele", "user_id"}
SomeDetails == PyDict(<< <<"ore_somn", PyInt(7)>> >>)

Txt(chars) == PyStr(chars)
Cardio == Txt(<<"C", "a", "r", "d", "i", "o">>)
Derma == Txt(<<"D", "e", "r", "m", "a">>)
IdC1 == Txt(<<"c", "1">>)
IdC2 == Txt(<<"c", "2">>)
ClinicCardio == [id |-> IdC1, name |-> Cardio, nume |-> Cardio, category |-> Cardio]
ClinicDerma == [id |-> IdC2, name |-> Derma, nume |-> Derma, category |-> Derma]
\* a clinic row whose name columns are NULL
ClinicNullName == [id |-> IdC1, name |-> PyNone, nume |-> PyNone, category |-> Cardio]
\* a clinic row without name columns
ClinicNoName == [id |-> IdC1, category |-> Cardio]
\* a clinic row whose category is NULL
ClinicUnfiled ==
  [id |-> Txt(<<"c", "4">>), name |-> Txt(<<"L", "a", "b">>), nume |-> Txt(<<"L", "a", "b">>),
   category |-> PyNone]
\* the clinic tables the store may hold
ClinicTables ==
  { <<>>, <<ClinicCardio, ClinicDerma>>, <<ClinicNullName, ClinicDerma>>,
    <<ClinicNoName, ClinicDerma>> }
MainClinicTables == { <<>>, <<ClinicCardio, ClinicDerma>> }

\* the request date strings: absent, today, the old day, not a date
BadDate == Txt(<<"x">>)
DateInputs == {PyNone, DateStr(Today), DateStr(Today - WeekDays - 1), BadDate}
\* the target_date of a JSON body that is not a string: zero, a number, an
\* empty list
BodyDates == {PyInt(0), PyInt(5), PyList(<<>>)}

\* the chat histories a client sends: none, a question and its answer, a
\* list of texts, null
ChatHistories ==
  { PyList(<<>>),
    PyList(<<PyDict(<< <<"role", RoleUser>>, <<"content", Txt(<<"q">>)>> >>),
             PyDict(<< <<"role", Txt(<<"a", "i">>)>>, <<"content", Txt(<<"a">>)>> >>)>>),
    PyList(<<Txt(<<"x">>)>>),
    PyNone }

\* the failures of the storage calls of one operation
DbFails == Fails({{}, {"select_general"}, {"get_profile"}, {"get_all_cabinete"}}, {DbDown})

\* a row of the appointments table
SomeAppointment ==
  [id |-> 1, user_id |-> "u1", cabinet_id |-> IdC1, data |-> Today + 1, active |-> TRUE]

\* provider outcomes
LlmFail == [ok |-> FALSE, cause |-> <<"provider call failed">>]
LlmOk(text) == [ok |-> TRUE, content |-> text]
SomeText == Txt(<<"o", "k">>)
\* the JSON text of a value
JsonOf(v) == JsonDumps(v).val
Score73 == Txt(<<"7", "3">>)

\* ------------------------------------------------------------ actions
Init ==
  /\ general = <<>>
  /\ profiles = <<ProfileRow("u1")>>
  /\ cabinete \in MainClinicTables
  /\ programari = <<>>
  /\ resp = Idle

\* variant of InsertGeneral: the new row takes the place of the table
InsertGeneralReplacing(u, d, details, type_, dbfail) ==
  /\ resp = Idle
  /\ Len(general) + Len(programari) < MaxRecords
  /\ LET r == insert_general(u, PyDate(d), details, type_, dbfail)
     IN  /\ general' = IF r.ok THEN <<NewRecord(InsertRecord(u, d, details, type_).val)>>
                       ELSE general
         /\ resp' = [op |-> "insert_general", user_id |-> u, target_date |-> PyDate(d),
                     details |-> details, type |-> type_, dbfail |-> dbfail, out |-> r]
  /\ UNCHANGED <<profiles, cabinete, programari>>

\* a writer of the store calls insert_general; the store keeps the row it
\* was sent whenever it reports no error, whether or not it returns it
InsertGeneral(u, d, details, type_, dbfail) ==
  /\ resp = Idle
  /\ Len(general) + Len(programari) < MaxRecords
  /\ LET r == insert_general(u, PyDate(d), details, type_, dbfail)
     IN  /\ general' = IF r.ok
                       THEN Append(general, NewRecord(InsertRecord(u, d, details, type_).val))
                       ELSE general
         /\ resp' = [op |-> "insert_general", user_id |-> u, target_date |-> PyDate(d),
                     details |-> details, type |-> type_, dbfail |-> dbfail, out |-> r]
  /\ UNCHANGED <<profiles, cabinete, programari>>

\* a writer of the store calls create_programare; the store keeps the row it
\* was sent whenever it reports no error
CreateProgramare(u, cabinet_id, d, active, dbfail) ==
  /\ resp = Idle
  /\ Len(general) + Len(programari) < MaxRecords
  /\ LET r == create_programare(u, cabinet_id, PyDate(d), active, dbfail)
     IN  /\ programari' = IF r.ok
                          THEN Append(programari, NewProgramare(u, cabinet_id, d, active))
                          ELSE programari
         /\ resp' = [op |-> "create_programare", user_id |-> u, cabinet_id |-> cabinet_id,
                     target_date |-> PyDate(d), active |-> active, dbfail |-> dbfail,
                     out |-> r]
  /\ UNCHANGED <<general, profiles, cabinete>>

\* a writer of the store calls update_programare_status
UpdateProgramareStatus(id, active, dbfail) ==
  /\ resp = Idle
  /\ LET r == update_programare_status(id, active, dbfail)
     IN  /\ programari' = IF r.ok THEN WithStatus(id, active) ELSE programari
         /\ resp' = [op |-> "update_programare_status", programare_id |-> id,
                     active |-> active, dbfail |-> dbfail, out |-> r]
  /\ UNCHANGED <<general, profiles, cabinete>>

\* GET /api/v1/users/{user_id}/programari
UserAppointments(u, active_only, dbfail) ==
  /\ resp = Idle
  /\ \E order \in AscOrders(ProgramariRows(u, active_only)) :
       resp' = [op |-> "get_user_appointments", user_id |-> u, active_only |-> active_only,
                dbfail |-> dbfail,
                out |-> get_user_appointments(u, active_only, order, dbfail)]
  /\ UNCHANGED <<general, profiles, cabinete, programari>>

\* a caller of the adapter builds a daily summary
DailySummary(u, d, dbfail) ==
  /\ resp = Idle
  /\ resp' = [op |-> "get_daily_summary", user_id |-> u, target_date |-> PyDate(d),
              dbfail |-> dbfail, out |-> get_daily_summary(u, PyDate(d), dbfail)]
  /\ UNCHANGED <<general, profiles, cabinete, programari>>

\* a caller of the adapter builds a weekly summary
WeeklySummary(u, d, dbfail) ==
  /\ resp = Idle
  /\ \E order \in DescOrders(RangeRows(u, d - WeekDays, d, NoFilter)) :
       resp' = [op |-> "get_weekly_summary", user_id |-> u, end_date |-> PyDate(d),
                dbfail |-> dbfail, out |-> get_weekly_summary(u, PyDate(d), order, dbfail)]
  /\ UNCHANGED <<general, profiles, cabinete, programari>>

\* the scheduler calls generate_alert_for_user
AlertForUser(u, d, dbfail, llm) ==
  /\ resp = Idle
  /\ resp' = [op |-> "generate_alert_for_user", user_id |-> u, target_date |-> d,
              dbfail |-> dbfail,
              out |-> generate_alert_for_user(u, d, dbfail, llm)]
  /\ UNCHANGED <<general, profiles, cabinete, programari>>

\* POST /ask
Ask(u, dbfail, llm) ==
  /\ resp = Idle
  /\ resp' = [op |-> "ask", user_id |-> u,
              target_date |-> PyNone, dbfail |-> dbfail,
              out |-> ask_llm(u, Txt(<<"q">>), dbfail, llm)]
  /\ UNCHANGED <<general, profiles, cabinete, programari>>

\* POST /gen_alert
GenAlert(u, date, dbfail, llm) ==
  /\ resp = Idle
  /\ resp' = [op |-> "gen_alert", user_id |-> u, target_date |-> date,
              dbfail |-> dbfail,
              out |-> generate_alert(u, date, dbfail, llm)]
  /\ UNCHANGED <<general, profiles, cabinete, programari>>

\* GET /api/v1/generate_alert
ApiGenerateAlert(u, date, dbfail, llm) ==
  /\ resp = Idle
  /\ resp' = [op |-> "api_generate_alert", user_id |-> u, target_date |-> date,
              dbfail |-> dbfail,
              out |-> api_generate_alert(u, date, dbfail, llm)]
  /\ UNCHANGED <<general, profiles, cabinete, programari>>

\* GET /api/v1/users/{user_id}/summary
UserSummary(u, date, dbfail) ==
  /\ resp = Idle
  /\ resp' = [op |-> "get_user_summary", user_id |-> u, target_date |-> date,
              dbfail |-> dbfail,
              out |-> get_user_summary(u, date, dbfail)]
  /\ UNCHANGED <<general, profiles, cabinete, programari>>

\* POST /api/v1/recommend_clinic
RecommendClinic(u, chat_history, date, dbfail, llm) ==
  /\ resp = Idle
  /\ resp' = [op |-> "recommend_clinic", user_id |-> u, target_date |-> date,
              dbfail |-> dbfail,
              chat_history |-> chat_history,
              out |-> recommend_clinic(u, chat_history, date, dbfail, llm)]
  /\ UNCHANGED <<general, profiles, cabinete, programari>>

\* POST /schedule_appointment; the request carries the summary the client
\* holds
ScheduleAppointment(u, summary, dbfail, llm) ==
  /\ resp = Idle
  /\ resp' = [op |-> "schedule_appointment", user_id |-> u,
              target_date |-> PyNone, dbfail |-> dbfail,
              out |-> schedule_appointment(
                        [user_id |-> u, question |-> Txt(<<"q">>),
                         generated_feedback |-> SomeText, summary |-> summary],
                        dbfail, llm)]
  /\ UNCHANGED <<general, profiles, cabinete, programari>>

\* the response is handed to the caller and the operation ends
Deliver ==
  /\ resp # Idle
  /\ resp' = Idle
  /\ UNCHANGED <<general, profiles, cabinete, programari>>

\* the provider outcomes of the calls of one request, in call order
OneCall == { <<LlmOk(SomeText)>>, <<LlmFail>> }
AlertPlans ==
  { <<f, sc, b, b, b, b>> : f \in {LlmOk(SomeText), LlmFail},
                            sc \in {LlmOk(Score73), LlmOk(PyNone), LlmFail},
                            b \in {LlmOk(SomeText), LlmFail} }
NotJson == Txt(<<"s", "o", "r", "r", "y">>)
RecCardio ==
  PyDict(<< <<"clinic_name", Txt(<<"c", "a", "r", "d", "i", "o">>)>>,
            <<"score", PyInt(95)>>, <<"reasoning", Txt(<<"r">>)>> >>)
RecommendPlans ==
  { <<LlmOk(NotJson)>>, <<LlmFail>>,
    <<LlmOk(JsonOf(PyDict(<< <<"recommendations", PyList(<<RecCardio>>)>> >>)))>> }
SelectPlans == { <<LlmOk(IdC2)>>, <<LlmFail>> }

\* the summaries a client may send with /schedule_appointment: none, or the
\* one the summary builder gives for the user
ClientSummaries(u) ==
  LET s == get_daily_summary(u, PyDate(Today), NoFail)
  IN  {EmptyDict} \cup (IF s.ok THEN {s.val} ELSE {})

Next ==
  \/ \E u \in UserIds, d \in RecordDates, type_ \in FlowTypes,
        f \in Fails({{}, {"insert_general"}}, {DbDown}) \cup {NoData} :
           InsertGeneral(u, d, SomeDetails, type_, f)
  \/ \E u \in UserIds, d \in RecordDates, f \in DbFails : DailySummary(u, d, f)
  \/ \E u \in UserIds, d \in EndDates,
        f \in Fails({{}, {"get_general_by_date_range"}, {"get_profile"}}, {DbDown}) : WeeklySummary(u, d, f)
  \/ \E u \in UserIds, d \in {PyNone, PyDate(Today)}, f \in DbFails, llm \in AlertPlans :
        AlertForUser(u, d, f, llm)
  \/ \E u \in UserIds, f \in DbFails, llm \in OneCall : Ask(u, f, llm)
  \/ \E u \in UserIds, date \in DateInputs, f \in DbFails, llm \in OneCall :
        GenAlert(u, date, f, llm)
  \/ \E u \in UserIds, date \in DateInputs, f \in DbFails, llm \in AlertPlans :
        ApiGenerateAlert(u, date, f, llm)
  \/ \E u \in UserIds, date \in DateInputs, f \in DbFails : UserSummary(u, date, f)
  \/ \E u \in UserIds \cup {NoUser}, date \in DateInputs, f \in DbFails,
        llm \in RecommendPlans :
           RecommendClinic(u, PyList(<<>>), date, f, llm)
  \/ \E u \in UserIds, chat \in ChatHistories, date \in {PyNone} \cup BodyDates,
        llm \in RecommendPlans :
           RecommendClinic(u, chat, date, NoFail, llm)
  \/ /\ resp = Idle
     /\ \E u \in UserIds, f \in DbFails, llm \in SelectPlans :
          \E summary \in ClientSummaries(u) : ScheduleAppointment(u, summary, f, llm)
  \/ \E u \in UserIds, active_only \in BOOLEAN,
        f \in Fails({{}, {"get_user_programari"}}, {DbDown}) :
           UserAppointments(u, active_only, f)
  \/ \E active \in BOOLEAN, f \in Fails({{}, {"create_programare"}}, {DbDown}) \cup {NoData} :
        CreateProgramare("u1", IdC1, Today + 1, active, f)
  \/ \E id \in 1..MaxRecords, active \in BOOLEAN,
        f \in Fails({{}, {"update_programare_status"}}, {DbDown}) :
           UpdateProgramareStatus(id, active, f)
  \/ Deliver

Spec == Init /\ [][Next]_vars

TypeOK ==
  /\ Len(general) <= MaxRecords
  /\ \A i \in 1..Len(general) : general[i].id = i

\* ------------------------------------------- the interpreters on their own
\* A second specification: the store holds one user with one sleep record,
\* and the three interpreting handlers run on enumerated LLM responses.

\* all texts over an alphabet up to a length
TextsUpTo(alphabet, n) == UNION { [1..k -> alphabet] : k \in 0..n }

\* "U+00B2" is the superscript two, "U+0663" the Arabic-Indic digit three
ScoreAlphabet == {"0", "1", "7", "U+00B2", "U+0663", "x"}
ScorText == <<"S", "c", "o", "r", ":", " ", "7", "3", "/", "1", "0", "0">>
NaText == <<"N", "/", "A">>
Text150 == <<"1", "5", "0">>
TextMinus5 == <<"-", "5">>
ScoreTexts ==
  TextsUpTo(ScoreAlphabet, MaxLen) \cup {ScorText, NaText, Text150, TextMinus5}
ScoreOutcomes == { LlmOk(Txt(t)) : t \in ScoreTexts } \cup {LlmOk(PyNone), LlmFail}

SelectionTexts ==
  { <<"c", "2">>,
    <<"I", " ", "r", "e", "c", "o", "m", "m", "e", "n", "d", " ", "C", "a", "r", "d", "i", "o">>,
    <<"u", "n", "k", "n", "o", "w", "n">>,
    <<" ", "c", "2", "\n">>,
    <<"c", "1">>,
    <<"D", "e", "r", "m", "a", " ", "C", "a", "r", "d", "i", "o">>,
    <<>> }

RecDerma == PyDict(<< <<"clinic_name", Derma>> >>)
RecUnknown ==
  PyDict(<< <<"clinic_name", Txt(<<"X", "r", "a", "y">>)>>, <<"score", PyInt(10)>>,
            <<"reasoning", Txt(<<"n">>)>> >>)
RecIntName == PyDict(<< <<"clinic_name", PyInt(5)>> >>)
RecNotObject == PyInt(1)
RecInputs == {RecCardio, RecDerma, RecUnknown, RecIntName, RecNotObject}
\* a response written out character by character: one recommendation that
\* names Derma and has no score; JSON that is not an object; a
\* recommendations member that is a number
DermaText ==
  Txt(<<
    "{", "\"", "r", "e", "c", "o", "m", "m", "e", "n", "d", "a", "t", "i", "o", "n",
    "s", "\"", ":", " ", "[", "{", "\"", "c", "l", "i", "n", "i", "c", "_", "n", "a",
    "m", "e", "\"", ":", " ", "\"", "D", "e", "r", "m", "a", "\"", "}", "]", "}">>)
NullText == Txt(<<"n", "u", "l", "l">>)
NumberText ==
  Txt(<<
    "{", "\"", "r", "e", "c", "o", "m", "m", "e", "n", "d", "a", "t", "i", "o", "n",
    "s", "\"", ":", " ", "1", ".", "5", "}">>)
RecommendDocs ==
  { JsonOf(PyDict(<< <<"recommendations", PyList(l)>> >>)) :
      l \in TextsUpTo(RecInputs, MaxRecs) }
  \cup { JsonOf(PyDict(<< <<"recommendations", PyNone>> >>)),
         JsonOf(PyDict(<< <<"recommendations", PyDict(<< <<"a", PyInt(1)>> >>)>> >>)),
         JsonOf(PyDict(<< <<"recommendations", Txt(<<"a", "b">>)>> >>)),
         JsonOf(PyDict(<< <<"other", PyInt(1)>> >>)),
         JsonOf(PyList(<<>>)),
         JsonOf(PyNone),
         NotJson, Txt(<<"5">>), DermaText, NullText, NumberText, PyNone }

InitInterp ==
  /\ general = <<[id |-> 1, user_id |-> "u1", data |-> Today,
                  details |-> JsonOf(SomeDetails), type |-> "somn", created_at |-> 1]>>
  /\ profiles = <<ProfileRow("u1")>>
  /\ cabinete \in ClinicTables
  /\ programari = <<SomeAppointment>>
  /\ resp = Idle

NextInterp ==
  \/ \E fb \in {LlmOk(SomeText), LlmFail}, sc \in ScoreOutcomes :
        AlertForUser("u1", PyDate(Today), NoFail, <<fb, sc>>)
  \/ /\ resp = Idle
     /\ \E t \in SelectionTexts, summary \in ClientSummaries("u1") :
          ScheduleAppointment("u1", summary, NoFail, <<LlmOk(Txt(t))>>)
  \/ \E doc \in RecommendDocs :
        RecommendClinic("u1", PyList(<<>>), PyNone, NoFail, <<LlmOk(doc)>>)
  \/ Deliver

SpecInterp == InitInterp /\ [][NextInterp]_vars

\* ============================================================== claims
\* helpers over the last response
LlmCalls(tr) == SelectSeq(tr, LAMBDA e : e.k = "llm")
HasProfile(u) == \E i \in 1..Len(profiles) : profiles[i].id = u
BucketSum(summary) ==
  Len(summary.consum) + Len(summary.somn) + Len(summary.vitale)
  + Len(summary.sport) + Len(summary.medicamente)
BucketsEmpty(summary) == \A key \in BucketKeys : summary[key] = <<>>
\* the date a request asks about; 0 when its date string is not a date
RequestDate(date) ==
  IF date = PyNone THEN Today
  ELSE IF "d" \in DOMAIN date THEN date.d
  ELSE IF "iso" \in DOMAIN date THEN date.iso
  ELSE 0
ValidDate(date) == RequestDate(date) # 0
\* the rows of a user, and those logged on one day
RowsOf(u) == SelectSeq(general, LAMBDA r : r.user_id = u)
RowsOn(u, d) == SelectSeq(general, LAMBDA r : r.user_id = u /\ r.data = d)

\* generate_alert_for_user returned a result with a health score
ScoreAlertDone ==
  /\ resp.op = "generate_alert_for_user"
  /\ "health_score" \in DOMAIN resp.out.res
\* what the provider answered to the health-score call (the last call)
ScoreContent == resp.out.tr[Len(resp.out.tr)].outcome.content
ScoreText == IF ScoreContent = PyNone THEN <<>> ELSE ScoreContent.s
HealthScore == resp.out.res.health_score

\* C1 (as stated): the score responses "Scor: 73/100", "N/A", "150" and "-5"
\* give the health scores 73, 50, 100 and 5.
C1_Original ==
  ScoreAlertDone =>
    /\ ScoreText = ScorText => HealthScore = 73
    /\ ScoreText = NaText => HealthScore = 50
    /\ ScoreText = Text150 => HealthScore = 100
    /\ ScoreText = TextMinus5 => HealthScore = 5

\* C1 (amended): "Scor: 73/100" keeps the digits 73100 and is clamped to
\* 100; "N/A" gives the default 50, "150" the clamped 100 and "-5" gives 5.
C1_ScoreExamples ==
  ScoreAlertDone =>
    /\ ScoreText = ScorText => HealthScore = 100
    /\ ScoreText = NaText => HealthScore = 50
    /\ ScoreText = Text150 => HealthScore = 100
    /\ ScoreText = TextMinus5 => HealthScore = 5

C1_Witness == ScoreAlertDone /\ ScoreText = ScorText /\ HealthScore = 100

\* the decimal value of a text of decimal digits, digit by place value
RECURSIVE Pow10(_)
Pow10(n) == IF n = 0 THEN 1 ELSE 10 * Pow10(n - 1)
RECURSIVE PlaceSum(_, _)
PlaceSum(ds, i) ==
  IF i > Len(ds) THEN 0
  ELSE DigitVal(ds[i]) * Pow10(Len(ds) - i) + PlaceSum(ds, i + 1)
Clamped(n) == IF n > 100 THEN 100 ELSE IF n < 0 THEN 0 ELSE n
DecimalDigitsOf(text) == SelectSeq(text, LAMBDA c : c \in DecimalDigits)

\* C2 (as stated): the health score is the integer formed by the decimal
\* digits of the score response, clamped to 0..100, and 50 when the response
\* has no digit.
C2_Original ==
  ScoreAlertDone =>
    HealthScore = IF DecimalDigitsOf(ScoreText) = <<>> THEN 50
                  ELSE Clamped(PlaceSum(DecimalDigitsOf(ScoreText), 1))

\* C2 (amended): the characters str.isdigit accepts are kept; when they are
\* all decimal digits (of any script) the health score is their integer
\* clamped to 0..100; when none is kept, or a kept character is not a decimal
\* digit (a superscript digit), the health score is 50.  It is always in
\* 0..100.
C2_ScoreExtraction ==
  ScoreAlertDone =>
    LET kept == SelectSeq(ScoreText, IsDigit)
    IN  /\ HealthScore \in 0..100
        /\ HealthScore = IF kept = <<>> \/ kept # DecimalDigitsOf(ScoreText) THEN 50
                         ELSE Clamped(PlaceSum(kept, 1))

C2_Witness ==
  /\ ScoreAlertDone
  /\ ScoreText = <<"7", "U+00B2">>
  /\ HealthScore = 50

\* the operations that depend on a summary
SummaryOps ==
  {"ask", "gen_alert", "api_generate_alert", "recommend_clinic",
   "schedule_appointment", "get_user_summary"}

\* C3: for a user without a profile row, every summary-dependent endpoint
\* answers not-found (404) and makes no LLM call.
C3_NotFoundBeforeLlm ==
  ( /\ resp.op \in SummaryOps
    /\ resp.user_id \in UserIds
    /\ ~HasProfile(resp.user_id)
    /\ resp.dbfail = NoFail
    /\ ValidDate(resp.target_date)
    /\ \A i \in 1..Len(general) : general[i].type \in BucketKeys )
  => /\ resp.out.status = 404
     /\ LlmCalls(resp.out.tr) = <<>>

\* schedule_appointment got an answer from the provider
SelectionAnswered ==
  /\ resp.op = "schedule_appointment"
  /\ LlmCalls(resp.out.tr) # <<>>
  /\ LlmCalls(resp.out.tr)[1].outcome.ok
SelectionText == LlmCalls(resp.out.tr)[1].outcome.content.s
\* clinic i matches by the rule of the claim
ClinicMatches(i) ==
  \/ /\ "id" \in DOMAIN cabinete[i]
     /\ cabinete[i].id = Txt(Strip(SelectionText))
  \/ /\ "name" \in DOMAIN cabinete[i]
     /\ IsStr(cabinete[i].name)
     /\ Contains(SelectionText, cabinete[i].name.s)
ExpectedSelection ==
  IF \E i \in 1..Len(cabinete) : ClinicMatches(i)
  THEN cabinete[CHOOSE i \in 1..Len(cabinete) :
                  ClinicMatches(i) /\ \A j \in 1..(i - 1) : ~ClinicMatches(j)]
  ELSE cabinete[1]

\* C4: schedule_appointment selects the first clinic of the list whose id
\* equals the trimmed LLM response or whose name occurs in the response, and
\* the first clinic of the list when none matches.
C4_ClinicSelection ==
  SelectionAnswered =>
    /\ resp.out.status = 200
    /\ resp.out.body.selected_clinic = ExpectedSelection

\* recommend_clinic got an answer that is a JSON object whose recommendations
\* are a list of objects with a text clinic_name
RecommendationDoc == JsonLoads(LlmCalls(resp.out.tr)[1].outcome.content)
RecommendationList == RecommendationDoc.val.d.recommendations.items
WellFormedRecommendation ==
  /\ resp.op = "recommend_clinic"
  /\ LlmCalls(resp.out.tr) # <<>>
  /\ LlmCalls(resp.out.tr)[1].outcome.ok
  /\ LET doc == RecommendationDoc
     IN  /\ doc.ok
         /\ doc.val.t = "dict"
         /\ "recommendations" \in DOMAIN doc.val.d
         /\ doc.val.d.recommendations.t = "list"
         /\ \A i \in 1..Len(doc.val.d.recommendations.items) :
              LET rec == doc.val.d.recommendations.items[i]
              IN  /\ rec.t = "dict"
                  /\ "clinic_name" \in DOMAIN rec.d
                  /\ IsStr(rec.d.clinic_name)
\* the recommendation names clinic i of the store, case-insensitively
Names(rec, i) ==
  /\ "nume" \in DOMAIN cabinete[i]
  /\ IsStr(cabinete[i].nume)
  /\ Lower(cabinete[i].nume.s) = Lower(rec.d.clinic_name.s)
NamesSome(rec) == \E i \in 1..Len(cabinete) : Names(rec, i)

\* C5: a well-formed recommendation list gives a success response; every
\* recommendation naming a clinic of the store appears as that clinic with
\* the recommendation's score and reasoning, recommendations naming no clinic
\* are dropped, and when none names a clinic the full clinic list is returned.
C5_RecommendationExtraction ==
  WellFormedRecommendation =>
    LET recs == SelectSeq(RecommendationList, NamesSome)
        out == resp.out.body.recommended_clinics
    IN  /\ resp.out.status = 200
        /\ recs = <<>> => out = cabinete
        /\ recs # <<>> =>
             /\ Len(out) = Len(recs)
             /\ \A k \in 1..Len(recs) :
                  /\ \E i \in 1..Len(cabinete) :
                       /\ Names(recs[k], i)
                       /\ \A key \in DOMAIN cabinete[i] : out[k][key] = cabinete[i][key]
                  /\ out[k].recommendation_score
                       = Get(recs[k].d, "score", PyInt(50))
                  /\ out[k].recommendation_reasoning
                       = Get(recs[k].d, "reasoning", Txt(<<>>))

\* C6: when the store and the provider answered, score extraction, JSON
\* recommendation extraction and clinic-ID extraction end in a success
\* response, whatever the provider's text and the clinic rows are.
C6_FallbacksNeverFail ==
  ( /\ resp.op \in {"generate_alert_for_user", "recommend_clinic", "schedule_appointment"}
    /\ resp.dbfail = NoFail
    /\ LlmCalls(resp.out.tr) # <<>>
    /\ \A i \in 1..Len(LlmCalls(resp.out.tr)) : LlmCalls(resp.out.tr)[i].outcome.ok )
  => IF resp.op = "generate_alert_for_user"
     THEN resp.out.res.success
     ELSE resp.out.status = 200

\* the alert flows and what they returned
AlertOps == {"generate_alert_for_user", "gen_alert", "api_generate_alert"}
\* the result dict of an alert flow that did not end in an error
AlertResult ==
  IF resp.op = "generate_alert_for_user" THEN resp.out.res ELSE resp.out.body
AlertSucceeded ==
  IF resp.op = "generate_alert_for_user" THEN resp.out.res.success
  ELSE resp.out.status = 200
NoDataFeedbacks == {NoDataFeedbackScheduler, NoDataFeedbackMain}
\* an alert request for an existing user, with a usable date, during which
\* no storage call failed
AlertRequestServed ==
  /\ resp.op \in AlertOps
  /\ HasProfile(resp.user_id)
  /\ resp.dbfail = NoFail
  /\ ValidDate(resp.target_date)

\* C7: for a user with no record on the requested date, the daily summary
\* has five empty buckets and total_records = 0, and the alert flows return
\* the fixed no-data message without calling the LLM.
C7_NoDataNoLlm ==
  /\ ( /\ resp.op = "get_daily_summary"
       /\ resp.out.ok
       /\ RowsOn(resp.user_id, RequestDate(resp.target_date)) = <<>> )
     => /\ BucketsEmpty(resp.out.val)
        /\ resp.out.val.total_records = 0
  /\ ( /\ AlertRequestServed
       /\ RowsOn(resp.user_id, RequestDate(resp.target_date)) = <<>>
       /\ \A i \in 1..Len(general) : general[i].type \in BucketKeys )
     => /\ AlertSucceeded
        /\ AlertResult.feedback \in NoDataFeedbacks
        /\ LlmCalls(resp.out.tr) = <<>>

\* C8: every entry of a bucket of the daily summary of (user, date) is a
\* record of that user logged on that date, and total_records counts no
\* record of another date.
C8_DailySummaryOfTheDate ==
  ( /\ resp.op = "get_daily_summary"
    /\ resp.out.ok )
  => /\ \A key \in BucketKeys :
          \A i \in 1..Len(resp.out.val[key]) :
             \E j \in 1..Len(general) :
                /\ general[j].id = resp.out.val[key][i].id
                /\ general[j].user_id = resp.user_id
                /\ general[j].data = RequestDate(resp.target_date)
     /\ resp.out.val.total_records
          <= Len(RowsOn(resp.user_id, RequestDate(resp.target_date)))

\* a summary was returned by one of the two summary builders
SummaryReturned ==
  /\ resp.op \in {"get_daily_summary", "get_weekly_summary"}
  /\ resp.out.ok
\* the records the builder's query fetched
FetchedRows ==
  IF resp.op = "get_daily_summary" THEN RowsOf(resp.user_id)
  ELSE SelectSeq(RowsOf(resp.user_id), LAMBDA r :
         /\ r.data >= resp.end_date.d - WeekDays
         /\ r.data <= resp.end_date.d)
UnknownCategory(rows) == SelectSeq(rows, LAMBDA r : r.type \notin BucketKeys)

\* C9 (as stated): in every returned summary, total_records is the sum of
\* the lengths of the five buckets.
C9_Original ==
  SummaryReturned => resp.out.val.total_records = BucketSum(resp.out.val)

\* C9 (amended): in every returned summary, total_records is the number of
\* records fetched, that is the sum of the lengths of the five buckets plus
\* the number of fetched records whose category is none of the five buckets.
C9_TotalIsFetchedCount ==
  SummaryReturned =>
    /\ resp.out.val.total_records = Len(FetchedRows)
    /\ resp.out.val.total_records
         = BucketSum(resp.out.val) + Len(UnknownCategory(FetchedRows))

C9_Witness ==
  /\ SummaryReturned
  /\ UnknownCategory(FetchedRows) # <<>>
  /\ BucketSum(resp.out.val) > 0
  /\ resp.out.val.total_records > BucketSum(resp.out.val)

\* C10: total_records is the number of fetched records; the alert flows take
\* the no-data branch exactly when it is 0; a user all of whose fetched
\* records have a category outside the five buckets has total_records > 0,
\* empty buckets, and the LLM is called.
C10_NoDataOnRawCount ==
  ( /\ resp.op \in {"generate_alert_for_user", "gen_alert"}
    /\ AlertRequestServed )
  => /\ (AlertSucceeded /\ "summary" \in DOMAIN AlertResult)
          => AlertResult.summary.total_records = Len(RowsOf(resp.user_id))
     /\ (AlertSucceeded /\ AlertResult.feedback \in NoDataFeedbacks)
          <=> RowsOf(resp.user_id) = <<>>
     /\ ( /\ RowsOf(resp.user_id) # <<>>
          /\ UnknownCategory(RowsOf(resp.user_id)) = RowsOf(resp.user_id) )
        => /\ LlmCalls(resp.out.tr) # <<>>
           /\ AlertSucceeded
                => /\ AlertResult.summary.total_records > 0
                   /\ BucketsEmpty(AlertResult.summary)

\* ------------------------------------------ the storage adapter on its own
\* A third specification: records of more kinds are written, and the
\* operations of the adapter are called directly.

\* a stored details text that json.loads rejects
BadJson == Txt(<<"{">>)
\* a detail map with a tuple value
TupleDetails == PyDict(<< <<"tensiune", PyTuple(<<PyInt(120), PyInt(80)>>)>> >>)
\* a detail map with a key that is one character outside ASCII, a key that
\* is the six characters of that character's name, a float written with
\* digits its repr drops, and a map in the map
RichDetails ==
  PyDict(<< <<"\\U+00E9;", PyFloat(<<"1", ".", "5", "0">>)>>, <<"U+00E9", PyNone>>,
            <<"x", PyDict(<< <<"y", PyBool(TRUE)>> >>)>> >>)
\* a detail map json.dumps rejects
DateDetails == PyDict(<< <<"zi", PyDate(Today)>> >>)
\* the kinds of record written: a bucket record with a detail map, a bucket
\* record whose details are a text that is not JSON, an unknown category, a
\* NULL type, and two tags that are names of other summary fields ("date"
\* is a field of the daily summary only)
StoreKinds ==
  { [type |-> "somn", details |-> SomeDetails],
    [type |-> "somn", details |-> TupleDetails],
    [type |-> "somn", details |-> RichDetails],
    [type |-> "somn", details |-> DateDetails],
    [type |-> "somn", details |-> BadJson],
    [type |-> "altele", details |-> SomeDetails],
    [type |-> NullType, details |-> SomeDetails],
    [type |-> "user_id", details |-> SomeDetails],
    [type |-> "date", details |-> SomeDetails] }
\* the insert_general calls made: each kind of record for the first user, on
\* both dates, and the plain bucket record for the second user as well
StoreWrites ==
  { w \in [user_id : UserIds, date : RecordDates, kind : StoreKinds] :
      \/ w.user_id = "u1"
      \/ w.kind = [type |-> "somn", details |-> SomeDetails] }

InitStore ==
  /\ general = <<>>
  /\ profiles = <<ProfileRow("u1")>>
  /\ cabinete = <<ClinicCardio, ClinicDerma, ClinicUnfiled>>
  /\ programari = <<>>
  /\ resp = Idle

\* a caller reads the records of a user with select_general
SelectGeneral(u, d, type_filter, dbfail) ==
  /\ resp = Idle
  /\ resp' = [op |-> "select_general", user_id |-> u, target_date |-> PyDate(d),
              type_filter |-> type_filter, dbfail |-> dbfail,
              out |-> select_general(u, PyDate(d), type_filter, dbfail)]
  /\ UNCHANGED <<general, profiles, cabinete, programari>>

\* a caller looks one profile up
GetProfile(u, dbfail) ==
  /\ resp = Idle
  /\ resp' = [op |-> "get_profile", user_id |-> u, dbfail |-> dbfail,
              out |-> get_profile(u, dbfail)]
  /\ UNCHANGED <<general, profiles, cabinete, programari>>

\* a caller looks one clinic up
GetCabinet(id, dbfail) ==
  /\ resp = Idle
  /\ resp' = [op |-> "get_cabinet", cabinet_id |-> id, dbfail |-> dbfail,
              out |-> get_cabinet(id, dbfail)]
  /\ UNCHANGED <<general, profiles, cabinete, programari>>

\* a caller lists a table
ListTable(op, dbfail) ==
  /\ resp = Idle
  /\ resp' = [op |-> op, dbfail |-> dbfail,
              out |-> IF op = "get_all_profiles" THEN get_all_profiles(dbfail)
                      ELSE get_all_cabinete(dbfail)]
  /\ UNCHANGED <<general, profiles, cabinete, programari>>

\* a caller lists the records of a user between two dates
GetGeneralByDateRange(u, start_date, end_date, type_filter, dbfail) ==
  /\ resp = Idle
  /\ \E order \in DescOrders(RangeRows(u, start_date, end_date, type_filter)) :
       resp' = [op |-> "get_general_by_date_range", user_id |-> u,
                start_date |-> PyDate(start_date), end_date |-> PyDate(end_date),
                type_filter |-> type_filter, dbfail |-> dbfail,
                out |-> get_general_by_date_range(u, start_date, end_date, type_filter,
                                                  order, dbfail)]
  /\ UNCHANGED <<general, profiles, cabinete, programari>>

\* a caller lists the clinics of a category
GetCabineteByCategory(category, dbfail) ==
  /\ resp = Idle
  /\ resp' = [op |-> "get_cabinete_by_category", category |-> category, dbfail |-> dbfail,
              out |-> get_cabinete_by_category(category, dbfail)]
  /\ UNCHANGED <<general, profiles, cabinete, programari>>

\* a caller lists the appointments of a user
GetUserProgramari(u, active_only, dbfail) ==
  /\ resp = Idle
  /\ \E order \in AscOrders(ProgramariRows(u, active_only)) :
       resp' = [op |-> "get_user_programari", user_id |-> u, active_only |-> active_only,
                dbfail |-> dbfail,
                out |-> get_user_programari(u, active_only, order, dbfail)]
  /\ UNCHANGED <<general, profiles, cabinete, programari>>

IdC3 == Txt(<<"c", "3">>)
\* the categories asked for: part of a category in another case, the
\* pattern characters _ and *, the empty text, a category no clinic has,
\* None
Categories ==
  { Txt(<<"C", "A", "R", "D">>), Txt(<<"_", "e", "r">>), Txt(<<"a", "*", "o">>),
    Txt(<<>>), Txt(<<"x">>), PyNone }

NextStore ==
  \/ \E w \in StoreWrites,
        f \in Fails({{}, {"insert_general"}}, StoreCauses) \cup {NoData} :
           InsertGeneral(w.user_id, w.date, w.kind.details, w.kind.type, f)
  \/ \E u \in UserIds, d \in RecordDates, f \in Fails({{}, {"select_general"}, {"get_profile"}}, StoreCauses) :
        DailySummary(u, d, f)
  \/ \E u \in UserIds, d \in EndDates,
        f \in Fails({{}, {"get_general_by_date_range"}, {"get_profile"}}, StoreCauses) : WeeklySummary(u, d, f)
  \/ \E u \in UserIds, d \in RecordDates, t \in {NoFilter, "", "somn"},
        f \in Fails({{}, {"select_general"}}, StoreCauses) : SelectGeneral(u, d, t, f)
  \/ \E u \in UserIds, f \in Fails({{}, {"get_profile"}}, StoreCauses) : GetProfile(u, f)
  \/ \E id \in {IdC1, IdC3}, f \in Fails({{}, {"get_cabinet"}}, StoreCauses) : GetCabinet(id, f)
  \/ \E op \in {"get_all_profiles", "get_all_cabinete"} :
        \E f \in Fails({{}, {op}}, StoreCauses) : ListTable(op, f)
  \/ \E u \in UserIds, start \in RecordDates, t \in {NoFilter, "somn"},
        f \in Fails({{}, {"get_general_by_date_range"}}, StoreCauses) :
           GetGeneralByDateRange(u, start, Today, t, f)
  \/ \E category \in Categories,
        f \in Fails({{}, {"get_cabinete_by_category"}}, StoreCauses) :
           GetCabineteByCategory(category, f)
  \/ \E u \in UserIds, active_only \in BOOLEAN,
        f \in Fails({{}, {"get_user_programari"}}, StoreCauses) :
           GetUserProgramari(u, active_only, f)
  \/ \E u \in UserIds, d \in {Today, Today + 1}, active \in BOOLEAN,
        f \in Fails({{}, {"create_programare"}}, StoreCauses) \cup {NoData} :
           CreateProgramare(u, IdC1, d, active, f)
  \/ \E id \in 1..MaxRecords, active \in BOOLEAN,
        f \in Fails({{}, {"update_programare_status"}}, StoreCauses) :
           UpdateProgramareStatus(id, active, f)
  \/ Deliver

SpecStore == InitStore /\ [][NextStore]_vars

\* a summary builder was called and no store call failed
SummaryBuilt ==
  /\ resp.op \in {"get_daily_summary", "get_weekly_summary"}
  /\ resp.dbfail = NoFail
\* the profile row of a user as get_profile returns it
ProfileOf(u) ==
  IF HasProfile(u) THEN SelectSeq(profiles, LAMBDA p : p.id = u)[1] ELSE PyNone
OfCategory(rows, key) == SelectSeq(rows, LAMBDA r : r.type = key)

\* C11: a fetched record whose type is none of the five buckets (another
\* string, the name of another summary field, or NULL) is dropped silently:
\* the summary is returned, each bucket holds exactly the fetched records of
\* its category, and the other fields are as if the record were not there.
C11_UnknownCategoryDropped ==
  ( /\ SummaryBuilt
    /\ UnknownCategory(FetchedRows) # <<>> )
  => /\ resp.out.ok
     /\ \A key \in BucketKeys :
          Len(resp.out.val[key]) = Len(OfCategory(FetchedRows, key))
     /\ resp.out.val.user_id = resp.user_id
     /\ resp.out.val.profile = ProfileOf(resp.user_id)

\* the HTTP endpoints of the model
HttpOps ==
  {"ask", "gen_alert", "api_generate_alert", "get_user_summary", "get_user_appointments",
   "recommend_clinic", "schedule_appointment"}
\* the endpoints that take a date string
DateOps == {"api_generate_alert", "gen_alert", "get_user_summary", "recommend_clinic"}

\* C12: every endpoint that takes a date answers a date string that is not
\* an ISO date with a 4xx status, before any storage read or LLM call.
C12_BadDateIsClientError ==
  ( /\ resp.op \in DateOps
    /\ resp.target_date = BadDate )
  => /\ resp.out.status \in 400..499
     /\ resp.out.tr = <<>>

\* a storage call made while serving the request failed
StorageFailed ==
  \E i \in 1..Len(resp.out.tr) :
     /\ resp.out.tr[i].k = "db"
     /\ resp.out.tr[i].op \in DOMAIN resp.dbfail
\* an LLM call made while serving the request failed
LlmFailed ==
  \E i \in 1..Len(resp.out.tr) :
     /\ resp.out.tr[i].k = "llm"
     /\ ~resp.out.tr[i].outcome.ok

\* C13: a storage failure or an LLM failure while serving an existing user
\* is never answered with a client-error status, in particular never with
\* the 404 of user-not-found.
C13_FailureIsNotNotFound ==
  ( /\ resp.op \in HttpOps
    /\ HasProfile(resp.user_id)
    /\ (StorageFailed \/ LlmFailed) )
  => resp.out.status \notin 400..499

\* C14: a request during which a storage call or an LLM call failed ends in
\* an error response, never in a success response.
C14_NoPartialResponse ==
  ( /\ resp.op \in HttpOps
    /\ (StorageFailed \/ LlmFailed) )
  => resp.out.status >= 400

\* the operations that format a summary into an LLM prompt
PromptOps ==
  {"ask", "gen_alert", "generate_alert_for_user", "api_generate_alert",
   "schedule_appointment"}
\* the prompt of an LLM call: the content of its user message
UserPrompt(e) == e.messages[Len(e.messages)].content
PlaceholderLines == { <<Lit("- No data recorded")>>, <<Lit("- Nu exista date inregistrate")>> }
\* the section a _format_data_section template renders for a category
DataSectionStable(lines, key) ==
  /\ lines # <<>>
  /\ OfCategory(RowsOf(resp.user_id), key) = <<>> => lines \in PlaceholderLines
\* the e-mail formatting used by the clinic-selection prompt has a section
\* for the category
EmailSectionPresent(sections, key) ==
  \E j \in 1..Len(sections) : sections[j].section = key

\* C15: in every prompt built from a summary (alert, short alert, Q&A and
\* the clinic-selection prompt), each category the template renders has its
\* section, and the section of an empty bucket is the placeholder line.
C15_EmptyCategoryPlaceholder ==
  resp.op \in PromptOps =>
    \A i \in 1..Len(resp.out.tr) :
       resp.out.tr[i].k = "llm" =>
         LET prompt == UserPrompt(resp.out.tr[i])
         IN  /\ prompt.template \in {"alert", "short_alert"} =>
                  \A key \in {"consum", "somn", "vitale", "sport"} :
                     DataSectionStable(prompt[key], key)
             /\ prompt.template = "ask" =>
                  \A key \in BucketKeys : DataSectionStable(prompt[key], key)
             /\ prompt.template = "select_clinic" =>
                  \A key \in BucketKeys : EmailSectionPresent(prompt.summary, key)

\* the same for the three templates that use _format_data_section only
C15_DataSectionTemplates ==
  resp.op \in PromptOps =>
    \A i \in 1..Len(resp.out.tr) :
       resp.out.tr[i].k = "llm" =>
         LET prompt == UserPrompt(resp.out.tr[i])
         IN  /\ prompt.template \in {"alert", "short_alert"} =>
                  \A key \in {"consum", "somn", "vitale", "sport"} :
                     DataSectionStable(prompt[key], key)
             /\ prompt.template = "ask" =>
                  \A key \in BucketKeys : DataSectionStable(prompt[key], key)

\* ---------------------------------------------------------------- C16
\* a value as it is after the serialization: a tuple has become a list and
\* a float is the one its repr stands for
RECURSIVE JsonNormal(_)
JsonNormal(v) ==
  CASE v.t \in {"list", "tuple"} ->
         [t |-> "list", items |-> [i \in 1..Len(v.items) |-> JsonNormal(v.items[i])]]
    [] v.t = "dict" ->
         [t |-> "dict", keys |-> v.keys, d |-> [k \in DOMAIN v.d |-> JsonNormal(v.d[k])]]
    [] v.t = "float" -> PyFloat(FloatRepr(v.text))
    [] OTHER -> v
\* a record was written with a detail map
MapInserted ==
  /\ resp.op = "insert_general"
  /\ resp.out.ok
  /\ resp.details.t = "dict"

\* the detail values select_general returns for the record just written,
\* asked for with the user and the date of the insert
Refetched ==
  LET got == select_general(resp.user_id, resp.target_date, NoFilter, NoFail)
      mine == SelectSeq(got.val, LAMBDA r : r.id = general[Len(general)].id)
  IN  [i \in 1..Len(mine) |-> mine[i].details]

\* C16 as stated: the record re-fetched with select_general after an
\* insert_general of a detail map has, as its details value, a map
\* equivalent to the inserted one, not the serialized text.
C16_Original ==
  MapInserted =>
    /\ Len(Refetched) = 1
    /\ Refetched[1].t = "dict"
    /\ Refetched[1] = JsonNormal(resp.details)

\* C16, amended: the record re-fetched with select_general after an
\* insert_general of a detail map has, as its details value, the serialized
\* text of the map, and decoding that text gives a map equal to the inserted
\* one with its tuples read back as lists.
C16_RoundTripDecodes ==
  MapInserted =>
    /\ Len(Refetched) = 1
    /\ IsStr(Refetched[1])
    /\ JsonLoads(Refetched[1]).ok
    /\ JsonLoads(Refetched[1]).val = JsonNormal(resp.details)

\* a map with a tuple was written: what decodes back is not the same value
C16_Witness ==
  /\ MapInserted
  /\ resp.details = TupleDetails
  /\ Len(Refetched) = 1
  /\ JsonLoads(Refetched[1]).val # resp.details
\* a map was written whose text escapes a key and shortens a float
C16_WitnessEscaped ==
  /\ MapInserted
  /\ resp.details = RichDetails
  /\ Refetched[1] =
       Txt(<<"{", "\"", "\\", "u", "0", "0", "e", "9", "\"", ":", " ", "1", ".", "5", ",", " ",
             "\"", "U", "+", "0", "0", "E", "9", "\"", ":", " ", "n", "u", "l", "l", ",", " ",
             "\"", "x", "\"", ":", " ", "{", "\"", "y", "\"", ":", " ",
             "t", "r", "u", "e", "}", "}">>)
\* a map json.dumps rejects was given: nothing is written
C16_WitnessRejected ==
  /\ resp.op = "insert_general"
  /\ resp.details = DateDetails
  /\ ~resp.out.ok
  /\ resp.out.err = <<"Error inserting general data: ", "Object of type ", "date",
                      " is not JSON serializable">>
  /\ resp.out.tr = <<>>

\* ---------------------------------------------------------------- C17
\* the stored details of a record are a text that json.loads rejects
Undecodable(r) == IsStr(r.details) /\ ~JsonLoads(r.details).ok
\* the fetched records of the five categories
Bucketed(rows) == SelectSeq(rows, LAMBDA r : r.type \in BucketKeys)
\* the summary has, in the bucket of r, the entry of r with these details
PlacedWith(summary, r, details) ==
  \E i \in 1..Len(summary[r.type]) :
     /\ summary[r.type][i].created_at = r.created_at
     /\ summary[r.type][i].details = details
\* a summary builder fetched a record of a bucket whose details do not decode
UndecodableFetched ==
  /\ SummaryBuilt
  /\ \E i \in 1..Len(FetchedRows) :
       Undecodable(FetchedRows[i]) /\ FetchedRows[i].type \in BucketKeys

\* C17: when get_daily_summary or get_weekly_summary fetches a record whose
\* details text cannot be decoded, the call does not fail, that record is in
\* its bucket with the stored text unchanged, and every other fetched record
\* of a bucket is in its bucket with its decoded details.
C17_TolerantDecoding ==
  UndecodableFetched =>
    /\ resp.out.ok
    /\ \A i \in 1..Len(Bucketed(FetchedRows)) :
         LET r == Bucketed(FetchedRows)[i]
         IN  PlacedWith(resp.out.val, r,
                        IF Undecodable(r) THEN r.details ELSE JsonLoads(r.details).val)

\* the part of C17 on the summaries that are returned
C17_ReturnedSummaries ==
  (UndecodableFetched /\ resp.out.ok) =>
    \A i \in 1..Len(Bucketed(FetchedRows)) :
       LET r == Bucketed(FetchedRows)[i]
       IN  PlacedWith(resp.out.val, r,
                      IF Undecodable(r) THEN r.details ELSE JsonLoads(r.details).val)

\* ---------------------------------------------------------------- C18
\* the operations of the storage adapter
AdapterOps ==
  {"get_profile", "get_all_profiles", "select_general", "get_general_by_date_range",
   "insert_general", "get_all_cabinete", "get_cabinete_by_category", "get_cabinet",
   "get_user_programari", "create_programare", "update_programare_status",
   "get_daily_summary", "get_weekly_summary"}
\* the store calls of the operation that failed
FailedCalls ==
  { resp.out.tr[i].op : i \in { j \in 1..Len(resp.out.tr) :
                                  resp.out.tr[j].k = "db" /\ resp.out.tr[j].op \in DOMAIN resp.dbfail } }
EndsWith(text, suffix) ==
  /\ Len(text) >= Len(suffix)
  /\ SubSeq(text, Len(text) - Len(suffix) + 1, Len(text)) = suffix
\* a single-entity lookup whose store call succeeded and found no row
LookupFoundNothing ==
  /\ resp.dbfail = NoFail
  /\ \/ resp.op = "get_profile" /\ ~HasProfile(resp.user_id)
     \/ /\ resp.op = "get_cabinet"
        /\ \A i \in 1..Len(cabinete) : Get(cabinete[i], "id", PyNone) # resp.cabinet_id

\* C18: an adapter operation one of whose store calls fails raises, and the
\* message of what it raises ends with the message of the store's failure:
\* it returns no collection and no summary; get_profile and get_cabinet
\* return None, without raising, when the store call succeeds and finds no
\* row.
C18_AdapterFailureSemantics ==
  resp.op \in AdapterOps =>
    /\ FailedCalls # {} =>
          /\ ~resp.out.ok
          /\ \E op \in FailedCalls : EndsWith(resp.out.err, StoreError(resp.dbfail, op))
    /\ LookupFoundNothing => (resp.out.ok /\ resp.out.val = PyNone)

\* the profile read of a daily summary failed for a user who has records
C18_Witness ==
  /\ resp.op = "get_daily_summary"
  /\ FailedCalls = {"get_profile"}
  /\ RowsOf(resp.user_id) # <<>>
  /\ ~resp.out.ok
\* a profile was looked up for a user who has none
C18_WitnessAbsent ==
  /\ resp.op = "get_profile"
  /\ LookupFoundNothing
  /\ resp.out.val = PyNone

\* ---------------------------------------------------------------- C19
\* the callers of get_daily_summary that go on to call the LLM
LlmCallers == {"ask", "gen_alert", "generate_alert_for_user", "recommend_clinic"}
\* a request for a user id that has no profile row, with a usable date,
\* during which no storage call failed
AbsentProfileServed ==
  /\ resp.op \in LlmCallers \cup {"get_daily_summary"}
  /\ resp.user_id \in UserIds
  /\ ~HasProfile(resp.user_id)
  /\ resp.dbfail = NoFail
  /\ ValidDate(resp.target_date)
\* the answer says that the user was not found
SaysUserNotFound ==
  IF resp.op = "generate_alert_for_user"
  THEN ~resp.out.res.success /\ resp.out.res.error = "User not found"
  ELSE resp.out.status = 404

\* C19: for a user without a profile row, get_daily_summary returns a
\* summary whose profile is None and whose buckets and total_records hold
\* the user's fetched records, and ask_llm, generate_alert,
\* generate_alert_for_user and recommend_clinic answer user-not-found
\* without any LLM call.
C19_AbsentProfile ==
  AbsentProfileServed =>
    /\ resp.op = "get_daily_summary" =>
          /\ resp.out.ok
          /\ resp.out.val.profile = PyNone
          /\ resp.out.val.total_records = Len(RowsOf(resp.user_id))
          /\ \A key \in BucketKeys :
               Len(resp.out.val[key]) = Len(OfCategory(RowsOf(resp.user_id), key))
    /\ resp.op \in LlmCallers =>
          /\ SaysUserNotFound
          /\ LlmCalls(resp.out.tr) = <<>>

\* the part of C19 for users none of whose records has the name of another
\* summary field as its type
C19_WellTaggedRecords ==
  ( /\ AbsentProfileServed
    /\ \A i \in 1..Len(general) : general[i].type \in BucketKeys \cup {"altele"} )
  => /\ resp.op = "get_daily_summary" =>
          /\ resp.out.ok
          /\ resp.out.val.profile = PyNone
          /\ resp.out.val.total_records = Len(RowsOf(resp.user_id))
          /\ \A key \in BucketKeys :
               Len(resp.out.val[key]) = Len(OfCategory(RowsOf(resp.user_id), key))
     /\ resp.op \in LlmCallers =>
          /\ SaysUserNotFound
          /\ LlmCalls(resp.out.tr) = <<>>

\* ---------------------------------------------------------------- C20
\* the records of the user dated within the week that ends on the end date
InWeek(r) ==
  /\ r.user_id = resp.user_id
  /\ r.data >= resp.end_date.d - WeekDays
  /\ r.data <= resp.end_date.d
\* the entries of a bucket are those of exactly these rows, one for one
EntriesOf(entries, rows) ==
  /\ Len(entries) = Len(rows)
  /\ \A i \in 1..Len(rows) : \E j \in 1..Len(entries) :
        entries[j].created_at = rows[i].created_at
\* the stored record an entry was made from
RecordOf(entry) ==
  CHOOSE r \in { general[i] : i \in 1..Len(general) } : r.created_at = entry.created_at
SummaryFields == {"user_id", "profile", "total_records"} \cup BucketKeys

\* C20: a summary returned by get_weekly_summary has the profile, the five
\* buckets and total_records like a daily summary; its buckets hold exactly
\* the user's records of their category dated from end_date - 7 days to
\* end_date, both included, each entry with the record's date and no id;
\* each entry of a daily summary has the record's id and no date.
C20_WeeklySummary ==
  /\ (resp.op = "get_weekly_summary" /\ resp.out.ok) =>
       LET summary == resp.out.val
           rows == SelectSeq(general, InWeek)
       IN  /\ DOMAIN summary = SummaryFields \cup {"start_date", "end_date"}
           /\ summary.profile = ProfileOf(resp.user_id)
           /\ summary.start_date = resp.end_date.d - WeekDays
           /\ summary.end_date = resp.end_date.d
           /\ summary.total_records = Len(rows)
           /\ \A key \in BucketKeys :
                /\ EntriesOf(summary[key], OfCategory(rows, key))
                /\ \A j \in 1..Len(summary[key]) :
                     /\ DOMAIN summary[key][j] = {"date", "details", "created_at"}
                     /\ summary[key][j].date = RecordOf(summary[key][j]).data
  /\ (resp.op = "get_daily_summary" /\ resp.out.ok) =>
       LET summary == resp.out.val
       IN  /\ DOMAIN summary = SummaryFields \cup {"date"}
           /\ \A key \in BucketKeys : \A j \in 1..Len(summary[key]) :
                /\ DOMAIN summary[key][j] = {"id", "details", "created_at"}
                /\ summary[key][j].id = RecordOf(summary[key][j]).id

\* a weekly summary holds a record dated on the first day of its week while
\* the user has a record dated after its last day
C20_Witness ==
  /\ resp.op = "get_weekly_summary"
  /\ resp.out.ok
  /\ \E j \in 1..Len(resp.out.val.somn) :
       resp.out.val.somn[j].date = resp.end_date.d - WeekDays
  /\ \E i \in 1..Len(general) :
       general[i].user_id = resp.user_id /\ general[i].data > resp.end_date.d

\* ------------------------------------------------- the gateway on its own
\* A fourth specification: callers of the two gateway functions, with the
\* provider's responses enumerated.
ChoiceContents == {PyNone, Txt(<<>>), SomeText, NoMessage}
\* what the provider does with a call
ProviderResponses ==
  { [ok |-> TRUE, choices |-> c] : c \in TextsUpTo(ChoiceContents, MaxChoices) }
  \cup { [ok |-> FALSE, cause |-> <<m>>] :
           m \in {"invalid api key", "rate limit exceeded", "connection error"} }
\* the system_message arguments: none, an empty text, a text
SystemMessages == {PyNone, Txt(<<>>), Lit("system: assistant")}
Prompts == {Txt(<<"q">>), Txt(<<>>)}
Histories ==
  TextsUpTo({ [role |-> "system", content |-> Lit("system: assistant")],
              [role |-> "user", content |-> Txt(<<"q">>)] }, MaxChoices)

InitGateway ==
  /\ general = <<>>
  /\ profiles = <<ProfileRow("u1")>>
  /\ cabinete = <<ClinicCardio, ClinicDerma>>
  /\ programari = <<SomeAppointment>>
  /\ resp = Idle

\* a caller of get_llm_response
LlmResponse(prompt, system_message, response) ==
  /\ resp = Idle
  /\ resp' = [op |-> "get_llm_response", prompt |-> prompt,
              system_message |-> system_message, response |-> response,
              out |-> get_llm_response("complete", prompt, system_message,
                                       FirstChoice(response))]
  /\ UNCHANGED <<general, profiles, cabinete, programari>>

\* a caller of get_llm_chat_response
LlmChatResponse(messages, response) ==
  /\ resp = Idle
  /\ resp' = [op |-> "get_llm_chat_response", messages |-> messages,
              response |-> response,
              out |-> get_llm_chat_response("chat", messages, FirstChoice(response))]
  /\ UNCHANGED <<general, profiles, cabinete, programari>>

NextGateway ==
  \/ \E prompt \in Prompts, system_message \in SystemMessages,
        response \in ProviderResponses : LlmResponse(prompt, system_message, response)
  \/ \E messages \in Histories, response \in ProviderResponses :
        LlmChatResponse(messages, response)
  \/ Deliver

SpecGateway == InitGateway /\ [][NextGateway]_vars

\* ---------------------------------------------------------------- C21
GatewayOps == {"get_llm_response", "get_llm_chat_response"}
\* the message list of the provider call
SentMessages == LlmCalls(resp.out.tr)[1].messages
SystemOf(text) == [role |-> "system", content |-> text]
UserOf(text) == [role |-> "user", content |-> text]
\* the provider returned a completion whose first choice has a message
Completed ==
  /\ resp.response.ok
  /\ resp.response.choices # <<>>
  /\ resp.response.choices[1] # NoMessage
\* the text of the first completion, "" when it has no content
FirstText ==
  IF resp.response.choices[1] \in {PyNone, Txt(<<>>)} THEN Txt(<<>>)
  ELSE resp.response.choices[1]
\* what C21 says of get_llm_chat_response and of the value returned
HistoryAndText ==
  /\ resp.op = "get_llm_chat_response" => SentMessages = resp.messages
  /\ Completed => (resp.out.ok /\ resp.out.val = FirstText)

\* C21 as stated: get_llm_response sends [system, user] when a system
\* message is given and [user] when none is given; get_llm_chat_response
\* sends the history unchanged; both return the text of the first
\* completion, or "" when it has no content.
C21_Original ==
  resp.op \in GatewayOps =>
    /\ resp.op = "get_llm_response" =>
          SentMessages = IF resp.system_message # PyNone
                         THEN <<SystemOf(resp.system_message), UserOf(resp.prompt)>>
                         ELSE <<UserOf(resp.prompt)>>
    /\ HistoryAndText

\* C21, amended: get_llm_response sends [system, user] when a non-empty
\* system message is given and [user] when none or an empty one is given;
\* get_llm_chat_response sends the history unchanged; both return the text
\* of the first completion, or "" when it has no content.
C21_MessageList ==
  resp.op \in GatewayOps =>
    /\ resp.op = "get_llm_response" =>
          SentMessages = IF resp.system_message \notin {PyNone, Txt(<<>>)}
                         THEN <<SystemOf(resp.system_message), UserOf(resp.prompt)>>
                         ELSE <<UserOf(resp.prompt)>>
    /\ HistoryAndText

\* an empty system message was given and the completion had two choices,
\* the first without content
C21_Witness ==
  /\ resp.op = "get_llm_response"
  /\ resp.system_message = Txt(<<>>)
  /\ SentMessages = <<UserOf(resp.prompt)>>
  /\ Completed
  /\ Len(resp.response.choices) = 2
  /\ resp.response.choices[1] = PyNone
  /\ resp.out.val = Txt(<<>>)

\* ---------------------------------------------------------------- C22
\* the one kind of failure the gateway raises
GatewayErrorPrefix == "OpenAI API error: "

\* C22: an invocation of get_llm_response or get_llm_chat_response makes
\* exactly one provider call and no other call; when the provider raises,
\* returns no choice or a choice without message, the function raises the
\* gateway's one kind of failure, whose message ends with the message of
\* the cause.
C22_OneCallNoRetry ==
  resp.op \in GatewayOps =>
    /\ Len(resp.out.tr) = 1
    /\ Len(LlmCalls(resp.out.tr)) = 1
    /\ ~Completed =>
          /\ ~resp.out.ok
          /\ Head(resp.out.err) = GatewayErrorPrefix
          /\ Len(resp.out.err) > 1
          /\ ~resp.response.ok => EndsWith(resp.out.err, resp.response.cause)

\* the provider refused the call of get_llm_response for its rate limit
C22_Witness ==
  /\ resp.op = "get_llm_response"
  /\ ~resp.response.ok
  /\ resp.response.cause = <<"rate limit exceeded">>
  /\ ~resp.out.ok
  /\ Len(LlmCalls(resp.out.tr)) = 1
\* the provider returned a completion without choices
C22_WitnessNoChoice ==
  /\ resp.op = "get_llm_chat_response"
  /\ resp.response.ok
  /\ resp.response.choices = <<>>
  /\ ~resp.out.ok

\* ---------------------------------------------------------------- C23
\* the read, alert, Q&A and clinic flows
ReadFlows ==
  {"get_daily_summary", "get_weekly_summary", "ask", "gen_alert", "api_generate_alert",
   "generate_alert_for_user", "get_user_summary", "get_user_appointments",
   "recommend_clinic", "schedule_appointment"}
\* the adapter operations that write the appointments
AppointmentWriters == {"create_programare", "update_programare_status"}

\* C23: the only step that changes the health records is a successful
\* insert_general, which appends one row and leaves the existing rows as
\* they were, also when an appointment is written before or after it; the
\* appointments change only by create_programare and
\* update_programare_status, which write no health record; the read, alert,
\* Q&A and clinic flows leave the whole store (profiles, records, clinics,
\* appointments) unchanged.
C23_AppendOnly ==
  [][ /\ general' # general =>
            /\ resp'.op = "insert_general"
            /\ resp'.out.ok
            /\ Len(general') = Len(general) + 1
            /\ SubSeq(general', 1, Len(general)) = general
            /\ resp'.out.val \in {EmptyDict, general'[Len(general')]}
      /\ (resp'.op = "insert_general" /\ resp'.out.ok) =>
            /\ Len(general') = Len(general) + 1
            /\ SubSeq(general', 1, Len(general)) = general
      /\ programari' # programari =>
            (resp'.op \in AppointmentWriters /\ resp'.out.ok)
      /\ resp'.op \in AppointmentWriters => general' = general
      /\ resp'.op \in ReadFlows =>
            UNCHANGED <<general, profiles, cabinete, programari>> ]_vars

\* a second record was inserted and the first is still in its place
C23_Witness ==
  /\ resp.op = "insert_general"
  /\ resp.out.ok
  /\ Len(general) = 2
  /\ general[2] = resp.out.val
  /\ general[1].id = 1
\* a record was inserted into a store that holds an appointment whose
\* status had been changed
C23_WitnessAppointment ==
  /\ resp.op = "insert_general"
  /\ resp.out.ok
  /\ Len(general) = 1
  /\ Len(programari) = 1
  /\ ~programari[1].active

\* ---------------------------------------------------------------- C24
\* the requests that read the store and call the LLM
LlmRequests ==
  {"ask", "gen_alert", "api_generate_alert", "recommend_clinic", "schedule_appointment"}

\* C24: in the sequence of calls of one request, no storage operation comes
\* after an LLM call; the calls are made one after another, each with its
\* outcome before the next is made.
C24_ReadsBeforeLlm ==
  resp.op \in LlmRequests =>
    \A i, j \in 1..Len(resp.out.tr) :
       (i < j /\ resp.out.tr[i].k = "llm") =>
          /\ resp.out.tr[j].k = "llm"
          /\ "outcome" \in DOMAIN resp.out.tr[i]

\* /api/v1/generate_alert read the store twice and then made the feedback
\* call, the score call and a brief-summary call
C24_Witness ==
  /\ resp.op = "api_generate_alert"
  /\ resp.out.status = 200
  /\ Len(SelectSeq(resp.out.tr, LAMBDA e : e.k = "db")) = 2
  /\ Len(LlmCalls(resp.out.tr)) >= 3

\* --------------------------------------------------- the batch on its own
\* A fifth specification: the scheduler's batch over enumerated profile
\* tables, with the provider outcomes of each processed user enumerated.

\* a somn record of a user, and a record whose type names a summary field
BatchRecord(id, u, type_) ==
  [id |-> id, user_id |-> u, data |-> Today, details |-> JsonOf(SomeDetails),
   type |-> type_, created_at |-> id]
BatchTables ==
  { <<>>,
    <<BatchRecord(1, "u1", "somn")>>,
    <<BatchRecord(1, "u1", "somn"), BatchRecord(2, "u2", "somn")>>,
    <<BatchRecord(1, "u1", "user_id"), BatchRecord(2, "u2", "somn")>> }
\* the profile tables: rows of u1, of u2 and a row whose id is empty
BatchProfiles ==
  TextsUpTo({ProfileRow("u1"), ProfileRow("u2"), ProfileRow(NoUser)}, MaxProfiles)
\* the provider outcomes of the feedback call and the score call of a user
UserPlans ==
  { <<LlmOk(SomeText), LlmOk(Score73)>>, <<LlmFail, LlmOk(Score73)>>,
    <<LlmOk(SomeText), LlmFail>> }
BatchPlans == [1..MaxProfiles -> UserPlans]
BatchFails ==
  Fails({{}, {"get_all_profiles"}, {"select_general"}, {"get_profile"}}, {DbDown})

InitBatch ==
  /\ general \in BatchTables
  /\ profiles \in BatchProfiles
  /\ cabinete = <<ClinicCardio, ClinicDerma>>
  /\ programari = <<>>
  /\ resp = Idle

\* generate_alerts_for_all_users and scheduled_alert_task are coroutines: the
\* event loop runs one without interruption up to its next
\* `await asyncio.sleep(0.5)` (the calls of the store and of the LLM are
\* synchronous), and whatever else is due runs during the pause.  While a
\* batch runs, resp holds the profiles still to visit (todo), the results so
\* far (acc), whether it is suspended in the pause (paused) and the ids of
\* the records written since it began (written).
BatchRunning == resp.op = "batch_running"

\* the call and its read of the profiles; a failed read is re-raised
BatchBegin(caller, d, dbfail, plans) ==
  /\ resp = Idle
  /\ LET p == get_all_profiles(dbfail)
     IN  resp' = IF ~p.ok
                 THEN [op |-> caller, target_date |-> d, dbfail |-> dbfail,
                       plans |-> plans, written |-> <<>>, out |-> Raise(p.err, p.tr)]
                 ELSE [op |-> "batch_running", caller |-> caller, target_date |-> d,
                       date |-> IF d = PyNone THEN PyDate(Today) ELSE d,
                       dbfail |-> dbfail, plans |-> plans, read |-> p.tr,
                       todo |-> p.val, paused |-> FALSE, written |-> <<>>,
                       acc |-> [ok |-> TRUE, results |-> <<>>, tr |-> <<>>]]
  /\ UNCHANGED <<general, profiles, cabinete, programari>>

\* one iteration of the loop, on the next profile of the list, up to the
\* pause that ends it when the profile has an id
BatchIterate ==
  /\ BatchRunning
  /\ resp.todo # <<>>
  /\ resp' = With(BatchLoop(<<Head(resp.todo)>>, resp.date, resp.dbfail, resp.plans,
                            resp.acc), LAMBDA acc :
                 IF ~acc.ok
                 THEN [op |-> resp.caller, target_date |-> resp.target_date,
                       dbfail |-> resp.dbfail, plans |-> resp.plans,
                       written |-> resp.written,
                       out |-> Raise(acc.err, resp.read \o acc.tr)]
                 ELSE [resp EXCEPT !.todo = Tail(resp.todo), !.acc = acc,
                                   !.paused = /\ acc.tr # resp.acc.tr
                                              /\ acc.tr[Len(acc.tr)] = Sleep])
  /\ UNCHANGED <<general, profiles, cabinete, programari>>

\* a writer of the store calls insert_general while the batch is suspended
\* in its pause
InsertDuringPause(u, d, details, type_) ==
  /\ BatchRunning
  /\ resp.paused
  /\ Len(general) + Len(programari) < MaxRecords
  /\ LET r == insert_general(u, PyDate(d), details, type_, NoFail)
     IN  /\ r.ok
         /\ general' = Append(general, r.val)
         /\ resp' = [resp EXCEPT !.written = Append(@, r.val.id)]
  /\ UNCHANGED <<profiles, cabinete, programari>>

\* the list is exhausted: `return results`
BatchEnd ==
  /\ BatchRunning
  /\ resp.todo = <<>>
  /\ resp' = [op |-> resp.caller, target_date |-> resp.target_date,
              dbfail |-> resp.dbfail, plans |-> resp.plans, written |-> resp.written,
              out |-> Ok(resp.acc.results, resp.read \o resp.acc.tr)]
  /\ UNCHANGED <<general, profiles, cabinete, programari>>

\* the caller takes the result
BatchDeliver ==
  /\ resp.op \in {"generate_alerts_for_all_users", "scheduled_alert_task"}
  /\ resp' = Idle
  /\ UNCHANGED <<general, profiles, cabinete, programari>>

\* the steps of a batch called with one of the given plans, and of the
\* writer during its pauses: a record of the day for the first user, who is
\* visited after the second in some of the profile lists
BatchSteps(plans_) ==
  \/ \E caller \in {"generate_alerts_for_all_users", "scheduled_alert_task"},
        f \in BatchFails, plans \in plans_ :
        \E d \in IF caller = "scheduled_alert_task" THEN {PyNone}
                 ELSE {PyNone, PyDate(Today)} :
           BatchBegin(caller, d, f, plans)
  \/ BatchIterate
  \/ InsertDuringPause("u1", Today, SomeDetails, "somn")
  \/ BatchEnd
  \/ BatchDeliver

NextBatch ==
  \/ BatchSteps(BatchPlans)
  \/ \E u \in UserIds, d \in {PyNone, PyDate(Today)}, f \in DbFails, llm \in UserPlans :
        AlertForUser(u, d, f, llm)
  \/ resp.op = "generate_alert_for_user" /\ Deliver

SpecBatch == InitBatch /\ [][NextBatch]_vars

\* the batch alone, with the same provider outcomes for every user or with
\* a provider failure for one user at most; every awaited call of an
\* iteration completes and the event loop resumes the coroutine after each
\* pause
RunPlans ==
  { plans \in BatchPlans :
      \/ \E p \in UserPlans : \A n \in 1..MaxProfiles : plans[n] = p
      \/ Cardinality({ n \in 1..MaxProfiles :
                         plans[n] # <<LlmOk(SomeText), LlmOk(Score73)>> }) <= 1 }
NextBatchRun == BatchSteps(RunPlans)

SpecBatchRun ==
  InitBatch /\ [][NextBatchRun]_vars /\ WF_vars(BatchIterate) /\ WF_vars(BatchEnd)

\* ---------------------------------------------------------------- C25
BatchOps == {"generate_alerts_for_all_users", "scheduled_alert_task"}
\* the batch returned its results
BatchReturned == resp.op \in BatchOps /\ resp.out.ok
\* the ids of the profiles that have one, in the order of the table
ProfileIds ==
  LET rows == SelectSeq(profiles, LAMBDA p : p.id # NoUser)
  IN  [n \in 1..Len(rows) |-> rows[n].id]

\* C25: the calls of a batch that returns are the read of the profiles,
\* then for each profile with an id, in the order of the profile list, the
\* call of generate_alert_for_user for that id, with all its storage and LLM
\* calls made within it, followed by one pause.
C25_BatchSequential ==
  BatchReturned =>
    LET tr == resp.out.tr
    IN  /\ Len(tr) = 1 + 2 * Len(ProfileIds)
        /\ tr[1] = Db("get_all_profiles")
        /\ \A n \in 1..Len(ProfileIds) :
             /\ tr[2 * n].k = "alert"
             /\ tr[2 * n].user_id = ProfileIds[n]
             /\ \A i \in 1..Len(tr[2 * n].tr) : tr[2 * n].tr[i].k \in {"db", "llm"}
             /\ tr[2 * n + 1] = Sleep

\* a record of the user visited second was written during the pause after
\* the user visited first, who had no data: the second result carries the
\* data of the day
C25_WitnessWrittenInPause ==
  /\ BatchReturned
  /\ resp.written = <<1>>
  /\ Len(resp.out.val) = 2
  /\ resp.out.val[1].success
  /\ "summary" \notin DOMAIN resp.out.val[1]
  /\ "summary" \in DOMAIN resp.out.val[2]
  /\ resp.out.val[2].summary.total_records = 1
\* the batch processed u2 and then u1, with LLM calls for both
C25_Witness ==
  /\ BatchReturned
  /\ ProfileIds = <<"u2", "u1">>
  /\ LlmCalls(resp.out.tr[2].tr) # <<>>
  /\ LlmCalls(resp.out.tr[4].tr) # <<>>

\* ------------------------------------------ the brief summaries on their own
\* A sixth specification: /api/v1/generate_alert over stores whose buckets
\* hold up to one record more than the briefs use, with a different provider
\* answer for each brief call.

\* a record of u1 whose details tell the records apart
BriefRecord(id, type_) ==
  [id |-> id, user_id |-> "u1", data |-> Today,
   details |-> JsonOf(PyDict(<< <<"nr", PyInt(id)>> >>)), type |-> type_, created_at |-> id]
\* n records of one category
BriefRun(type_, n) == [id \in 1..n |-> BriefRecord(id, type_)]
BriefTablesOfOne == { BriefRun(c, n) : c \in {"somn", "sport"}, n \in 0..(BriefLimit + 1) }
BriefTables ==
  BriefTablesOfOne
  \cup { <<BriefRecord(1, "sport"), BriefRecord(2, "consum")>>,
         <<BriefRecord(1, "vitale"), BriefRecord(2, "medicamente"), BriefRecord(3, "vitale")>>,
         <<BriefRecord(1, "sport"), BriefRecord(2, "vitale"), BriefRecord(3, "somn"),
           BriefRecord(4, "consum")>> }
\* the answer to the n-th brief call, with white space around it
BriefAnswer(n) == Txt(<<" ", "b", <<"1", "2", "3", "4">>[n], " ">>)
BriefPlans ==
  { <<LlmOk(SomeText), LlmOk(Score73)>> \o b :
      b \in { f \in [1..4 -> { LlmOk(BriefAnswer(n)) : n \in 1..4 } \cup {LlmFail}] :
                \A n \in 1..4 : f[n] \in {LlmOk(BriefAnswer(n)), LlmFail} } }
  \cup { <<LlmFail, LlmOk(Score73), LlmFail, LlmFail, LlmFail, LlmFail>> }

InitBrief ==
  /\ general \in BriefTables
  /\ profiles = <<ProfileRow("u1")>>
  /\ cabinete = <<ClinicCardio, ClinicDerma>>
  /\ programari = <<SomeAppointment>>
  /\ resp = Idle

NextBrief ==
  \/ \E u \in UserIds, date \in {PyNone, DateStr(Today)},
        f \in Fails({{}, {"select_general"}}, {DbDown}), llm \in BriefPlans : ApiGenerateAlert(u, date, f, llm)
  \/ Deliver

SpecBrief == InitBrief /\ [][NextBrief]_vars

\* ---------------------------------------------------------------- C26
\* /api/v1/generate_alert answered with a result
BriefsReturned == resp.op = "api_generate_alert" /\ resp.out.status = 200
BriefSummary == Get(resp.out.body, "summary", EmptyDict)
BucketOf(category) == Get(BriefSummary, category, <<>>)
\* the categories that have records, in the order of the four
WithData == SelectSeq(BriefCategories, LAMBDA c : BucketOf(c) # <<>>)
\* the brief-summary calls of the request
BriefCalls == SelectSeq(resp.out.tr, LAMBDA e : e.k = "llm" /\ e.op = "brief")
\* the details of the first records of a bucket, at most BriefLimit of them
FirstDetails(category) ==
  [i \in 1..Min(BriefLimit, Len(BucketOf(category))) |-> BucketOf(category)[i].details]

\* C26: in a result of /api/v1/generate_alert, brief_summaries has an entry
\* for each of consum, somn, vitale, sport; the brief calls are one for each
\* category whose bucket is not empty, in that order, each with a prompt made
\* of the first three records of the bucket at most; a category whose bucket
\* is empty or missing has the fixed text and no call.
C26_BriefSummaries ==
  BriefsReturned =>
    /\ DOMAIN resp.out.body.brief_summaries = {"consum", "somn", "vitale", "sport"}
    /\ Len(BriefCalls) = Len(WithData)
    /\ \A n \in 1..Len(WithData) :
         /\ BriefCalls[n].messages[2].content.category = WithData[n]
         /\ BriefCalls[n].messages[2].content.details = FirstDetails(WithData[n])
         /\ Len(BriefCalls[n].messages[2].content.details) <= BriefLimit
         /\ resp.out.body.brief_summaries[WithData[n]] # Lit("Fara date")
    /\ \A c \in {"consum", "somn", "vitale", "sport"} :
         BucketOf(c) = <<>> => resp.out.body.brief_summaries[c] = Lit("Fara date")

\* the somn bucket has four records and its brief call was made with three
C26_Witness ==
  /\ BriefsReturned
  /\ Len(BucketOf("somn")) = BriefLimit + 1
  /\ Len(BriefCalls) = 1
  /\ Len(BriefCalls[1].messages[2].content.details) = BriefLimit
  /\ resp.out.body.brief_summaries.consum = Lit("Fara date")
\* the four categories have records and their calls were made in order
C26_WitnessOrder ==
  /\ BriefsReturned
  /\ WithData = BriefCategories
  /\ Len(BriefCalls) = 4
  /\ resp.out.body.brief_summaries.vitale = Txt(<<"b", "3">>)

\* ---------------------------------------------------------------- C27
\* one of these calls failed: a storage call or an LLM call
FailedIn(tr) ==
  \E i \in 1..Len(tr) :
     \/ tr[i].k = "db" /\ tr[i].op \in DOMAIN resp.dbfail
     \/ tr[i].k = "llm" /\ ~tr[i].outcome.ok
\* a returned result that tells a failure
FailureResult(res) ==
  /\ ~res.success
  /\ "error" \in DOMAIN res

\* C27: generate_alert_for_user always returns a result, and when one of its
\* storage or LLM calls failed the result has success False and an error;
\* the batch raises exactly when its read of the profiles fails, and
\* otherwise returns a result for every profile with an id, the one of a user
\* whose calls failed being a failure result.
C27_FailuresBecomeResults ==
  /\ resp.op = "generate_alert_for_user" =>
       /\ "res" \in DOMAIN resp.out
       /\ FailedIn(resp.out.tr) => FailureResult(resp.out.res)
  /\ resp.op \in BatchOps =>
       /\ resp.out.ok <=> "get_all_profiles" \notin DOMAIN resp.dbfail
       /\ resp.out.ok =>
            /\ Len(resp.out.val) = Len(ProfileIds)
            /\ \A n \in 1..Len(ProfileIds) :
                 FailedIn(resp.out.tr[2 * n].tr) => FailureResult(resp.out.val[n])

\* the LLM failed for the first user of a batch and the second user got an
\* alert
C27_Witness ==
  /\ BatchReturned
  /\ Len(resp.out.val) = 2
  /\ FailedIn(resp.out.tr[2].tr)
  /\ FailureResult(resp.out.val[1])
  /\ resp.out.val[2].success
  /\ "health_score" \in DOMAIN resp.out.val[2]
\* the read of the profiles failed
C27_WitnessRaise ==
  /\ resp.op \in BatchOps
  /\ ~resp.out.ok
  /\ resp.out.tr = <<Db("get_all_profiles")>>


\* ---------------------------------------------------------------- C28
\* the rows of a list of profiles that have an id
WithId(rows) == SelectSeq(rows, LAMBDA p : p.id # NoUser)
\* the events of a kind in the calls of the batch itself
EventsOf(tr, k) == { i \in 1..Len(tr) : tr[i].k = k }

\* what a batch whose read of the profiles succeeded returns: one result per
\* profile with an id, in the order of the list, each with that id; the
\* batch itself reads storage once and calls the LLM never, and calls
\* generate_alert_for_user for no other row; when no record was written
\* during its pauses, it returns what the function computes in one go
OneResultPerProfile ==
  resp.op \in BatchOps /\ "get_all_profiles" \notin DOMAIN resp.dbfail =>
    /\ resp.out.ok
    /\ Len(resp.out.val) = Len(ProfileIds)
    /\ \A n \in 1..Len(ProfileIds) : resp.out.val[n].user_id = ProfileIds[n]
    /\ EventsOf(resp.out.tr, "db") = {1}
    /\ EventsOf(resp.out.tr, "llm") = {}
    /\ Cardinality(EventsOf(resp.out.tr, "alert")) = Len(ProfileIds)
    /\ \A i \in EventsOf(resp.out.tr, "alert") : resp.out.tr[i].user_id # NoUser
    /\ resp.written = <<>> =>
         resp.out = IF resp.op = "scheduled_alert_task"
                    THEN scheduled_alert_task(resp.dbfail, resp.plans)
                    ELSE generate_alerts_for_all_users(resp.target_date, resp.dbfail,
                                                       resp.plans)
\* while the batch runs, the results so far and the profiles with an id still
\* to visit add up to the profiles with an id
BatchProgress ==
  BatchRunning =>
    /\ Len(resp.todo) <= Len(profiles)
    /\ Len(resp.acc.results) + Len(WithId(resp.todo)) = Len(ProfileIds)

\* C28: once the read of the profiles has succeeded, the batch returns, and
\* it returns exactly one result per profile that has an id, in the order of
\* the profile list, each carrying that profile's id; a profile without an
\* id gives no result and no storage or LLM call.
C28_BatchTerminates ==
  /\ [](OneResultPerProfile /\ BatchProgress)
  /\ BatchRunning ~> BatchReturned

\* a batch over a list whose first row has no id returned the one result of
\* the second row
C28_Witness ==
  /\ BatchReturned
  /\ Len(profiles) = 2
  /\ profiles[1].id = NoUser
  /\ profiles[2].id = "u1"
  /\ Len(resp.out.val) = 1
  /\ resp.out.val[1].user_id = "u1"
  /\ Len(resp.out.tr) = 3
\* a batch over a list of rows without an id returned no result
C28_WitnessNoIds ==
  /\ BatchReturned
  /\ Len(profiles) = MaxProfiles
  /\ \A n \in 1..Len(profiles) : profiles[n].id = NoUser
  /\ resp.out.val = <<>>
  /\ resp.out.tr = <<Db("get_all_profiles")>>


\* ---------------------------------------------------------------- C29
\* the purposes of a sequence of LLM calls
PurposesOf(calls) == [i \in 1..Len(calls) |-> calls[i].op]
\* a success result that carries the data of the day
SuccessWithData(res) == res.success /\ "summary" \in DOMAIN res

\* the LLM calls of one run of generate_alert_for_user and its result
TwoLlmCalls(res, tr) ==
  LET calls == LlmCalls(tr)
  IN  /\ PurposesOf(calls) \in {<<>>, <<"feedback">>, <<"feedback", "score">>}
      /\ SuccessWithData(res) =>
           /\ res.summary.total_records > 0
           /\ ~Falsy(res.summary.profile)
           /\ PurposesOf(calls) = <<"feedback", "score">>
           /\ calls[1].outcome.ok /\ calls[2].outcome.ok
           /\ {"feedback", "health_score"} \subseteq DOMAIN res
           /\ res.feedback = IF Truthy(calls[1].outcome.content)
                            THEN calls[1].outcome.content ELSE PyStr(<<>>)
           /\ res.health_score \in 0..100
      /\ (calls # <<>> /\ ~calls[1].outcome.ok) =>
           /\ PurposesOf(calls) = <<"feedback">>
           /\ ~res.success
      /\ (res.success /\ ~SuccessWithData(res)) => calls = <<>>

\* C29: a run of generate_alert_for_user that succeeds for a user with
\* records issues exactly two LLM calls, the feedback call and then the
\* health-score call; when the feedback call fails no score call follows
\* and the result has success False; a success result with data carries
\* feedback and health_score.
C29_FeedbackThenScore ==
  /\ resp.op = "generate_alert_for_user" => TwoLlmCalls(resp.out.res, resp.out.tr)
  /\ BatchReturned =>
       \A n \in 1..Len(resp.out.val) : TwoLlmCalls(resp.out.val[n], resp.out.tr[2 * n].tr)

\* a run with both calls answered
C29_Witness ==
  /\ resp.op = "generate_alert_for_user"
  /\ SuccessWithData(resp.out.res)
  /\ PurposesOf(LlmCalls(resp.out.tr)) = <<"feedback", "score">>
  /\ resp.out.res.health_score = 73
\* a run whose feedback call failed
C29_WitnessFeedbackFails ==
  /\ resp.op = "generate_alert_for_user"
  /\ PurposesOf(LlmCalls(resp.out.tr)) = <<"feedback">>
  /\ ~resp.out.res.success
\* a run whose score call failed after an answered feedback call
C29_WitnessScoreFails ==
  /\ resp.op = "generate_alert_for_user"
  /\ PurposesOf(LlmCalls(resp.out.tr)) = <<"feedback", "score">>
  /\ ~resp.out.res.success


\* ---------------------------------------------------------------- C30
ClinicOps == {"schedule_appointment", "recommend_clinic"}
\* the request read the clinic list from the store
ClinicsFetched ==
  /\ resp.op \in ClinicOps
  /\ "get_all_cabinete" \notin DOMAIN resp.dbfail
  /\ \E i \in 1..Len(resp.out.tr) : resp.out.tr[i] = Db("get_all_cabinete")
\* the recommendations the LLM gave, as the endpoint reads them
GivenRecommendations ==
  LET content == LlmCalls(resp.out.tr)[1].outcome.content
  IN  Iterate(ParseRecommendations(IF Truthy(content) THEN content ELSE Txt(<<>>))).val
\* the lower-cased name a recommendation gives and the one a clinic carries
RecName(rec) == Lower(Get(rec.d, "clinic_name", Txt(<<>>)).s)
ClinicName(c) == Lower(Get(c, "nume", Txt(<<>>)).s)
\* the recommendations that name a clinic of the fetched list
NamingRecommendations ==
  SelectSeq(GivenRecommendations,
            LAMBDA rec : \E i \in 1..Len(cabinete) : ClinicName(cabinete[i]) = RecName(rec))
\* an entry that is clinic c with the score and reasoning of rec
EnrichedFrom(entry, c, rec) ==
  /\ DOMAIN entry = DOMAIN c \cup {"recommendation_score", "recommendation_reasoning"}
  /\ \A key \in DOMAIN c : entry[key] = c[key]
  /\ entry.recommendation_score
       = IF "score" \in DOMAIN rec.d THEN rec.d.score ELSE PyInt(50)

\* C30: the selected_clinic of a success response of schedule_appointment
\* is a clinic of the list fetched from the store; the recommended_clinics of
\* a success response of recommend_clinic are either the fetched list or, in
\* the order of the LLM's recommendations, the fetched clinics they name with
\* their scores, 50 when a recommendation has none, and total_clinics is the
\* size of the fetched list; on an empty fetched list both endpoints answer
\* 404 and call no LLM.
C30_ClinicsFromTheStore ==
  /\ (resp.op = "schedule_appointment" /\ resp.out.status = 200) =>
       \E i \in 1..Len(cabinete) : resp.out.body.selected_clinic = cabinete[i]
  /\ (resp.op = "recommend_clinic" /\ resp.out.status = 200) =>
       LET out == resp.out.body.recommended_clinics
           recs == NamingRecommendations
       IN  /\ resp.out.body.total_clinics = Len(cabinete)
           /\ out # <<>>
           /\ recs = <<>> => out = cabinete
           /\ recs # <<>> =>
                /\ Len(out) = Len(recs)
                /\ \A k \in 1..Len(out) :
                     \E i \in 1..Len(cabinete) :
                        /\ ClinicName(cabinete[i]) = RecName(recs[k])
                        /\ EnrichedFrom(out[k], cabinete[i], recs[k])
  /\ (ClinicsFetched /\ cabinete = <<>>) =>
       /\ resp.out.status = 404
       /\ LlmCalls(resp.out.tr) = <<>>

\* two recommendations gave the two clinics in the order opposite to the
\* store's, the first with the default score
C30_Witness ==
  /\ resp.op = "recommend_clinic"
  /\ resp.out.status = 200
  /\ resp.out.body.total_clinics = 2
  /\ Len(resp.out.body.recommended_clinics) = 2
  /\ resp.out.body.recommended_clinics[1].id = cabinete[2].id
  /\ resp.out.body.recommended_clinics[1].recommendation_score = PyInt(50)
  /\ resp.out.body.recommended_clinics[2].id = cabinete[1].id
\* a clinic other than the first was selected
C30_WitnessSelected ==
  /\ resp.op = "schedule_appointment"
  /\ resp.out.status = 200
  /\ resp.out.body.selected_clinic = cabinete[2]
\* no clinic in the store
C30_WitnessNoClinic ==
  /\ ClinicsFetched
  /\ cabinete = <<>>
  /\ resp.out.status = 404

====
